---- MODULE Spec2Model ----
(***************************************************************************)
(* Cloudflare subdomain proxy service (src/cloudflare-proxy/app).          *)
(*                                                                         *)
(* State: the tunnels table (the ledger), the provider's tunnels, DNS      *)
(* records and tunnel configurations, and the position of the request      *)
(* handler each worker process is running.  A handler body has no await,   *)
(* so one process runs it to completion; the processes share the database  *)
(* and the provider, so handlers of different workers interleave at every  *)
(* blocking call (a database query or commit, a provider HTTP call).       *)
(* Requests are numbered in arrival order.                                 *)
(***************************************************************************)
EXTENDS Integers, Sequences, FiniteSets, TLC

VARIABLES
    ledger,      \* rows of table "tunnels" in insertion order; row i has id i
    tunnels,     \* provider: the tunnels that exist
    dns,         \* provider: the DNS records that exist
    routes,      \* provider: the tunnel configurations that were PUT
    now,         \* the clock behind func.now()
    arrived,     \* number of requests received so far
    req,         \* req[w]: input, position and locals of the request worker w runs
    resp,        \* resp[w]: the HTTP response of that request once it returned
    log          \* log[w]: the provider calls that request made, in order (history)

vars == <<ledger, tunnels, dns, routes, now, arrived, req, resp, log>>


(* ------------------------------ bounds -------------------------------- *)

\* requests received in one behaviour
MaxReqs == 3
\* last value of the clock
MaxClock == 1

\* the worker processes that serve requests
Workers == {1, 2}

(* ----------------------------- constants ------------------------------ *)

NONE == "<None>"

ParentDomain == "agentstudio.cc"
AccountId == "test-account"
ApiKeysList == {"test-key-12345"}
TunnelSuffix == ".cfargotunnel.com"

MinPort == 1
MaxPort == 65535

\* generate_subdomain: "agent-" and 8 characters of [a-z0-9]
GenNames == {"agent-k3x9m2pq"}
\* subdomains a caller supplies to create
Names == {"demo"}
\* subdomains a caller asks about in check, delete and get
Subdomains == Names \cup GenNames
\* create_tunnel: 32 characters of [A-Za-z0-9]
Secrets == {"Zq8sT1b7Xw0R"}
Keys == {NONE, "invalid-key", "test-key-12345"}
Ports == {8080, 99999}
\* the ports next to the ends of the accepted range
EdgePorts == {0, 65536}
\* status_filter as sent: left out (NONE), empty, or a word
StatusFilters == {NONE, "", "active", "deleted", "all"}
\* limit as sent; it is an int without a range
Limits == {-1, 1, 100}

\* Python truthiness of an Optional[str]
Truthy(x) == x # NONE /\ x # ""

(* ------------------------------ helpers ------------------------------- *)

\* the provider's identifiers are unique; the n-th request's resources get n
TunnelIdOf(n) == "tun-" \o ToString(n)
DnsIdOf(n) == "rec-" \o ToString(n)

\* f"{subdomain}.{self.parent_domain}"
FullHostname(subdomain) == subdomain \o "." \o ParentDomain

\* f"https://{full_hostname}"
PublicUrl(full_hostname) == "https://" \o full_hostname

\* f"{tunnel_id}.cfargotunnel.com"
TunnelTarget(tunnel_id) == tunnel_id \o TunnelSuffix

\* ActiveRows with the filter on the wrong status
ActiveRows_Deleted(L, s) ==
    {i \in 1..Len(L) : L[i].subdomain = s /\ L[i].status = "deleted"}

\* ActiveRows without the filter on the status
ActiveRows_AnyStatus(L, s) == {i \in 1..Len(L) : L[i].subdomain = s}

\* db.query(Tunnel).filter(subdomain == s, status == "active"): the ids found
ActiveRows(L, s) ==
    {i \in 1..Len(L) : L[i].subdomain = s /\ L[i].status = "active"}

\* RowsOf with the filter on status "active" added
RowsOf_Active(L, s) == {i \in 1..Len(L) : L[i].subdomain = s /\ L[i].status = "active"}

\* db.query(Tunnel).filter(subdomain == s): the ids found
RowsOf(L, s) == {i \in 1..Len(L) : L[i].subdomain = s}

\* .first() with no ORDER BY: the row of lowest id, 0 for None
First(ids) == IF ids = {} THEN 0 ELSE CHOOSE i \in ids : \A j \in ids : i <= j

\* UniqueOk without unique=True on subdomain
UniqueOk_TunnelOnly(L, row) ==
    \A i \in 1..Len(L) : L[i].tunnel_id # row.tunnel_id

\* the unique=True columns of the table: subdomain and tunnel_id
UniqueOk(L, row) ==
    /\ \A i \in 1..Len(L) : L[i].subdomain # row.subdomain
    /\ \A i \in 1..Len(L) : L[i].tunnel_id # row.tunnel_id

\* the nullable=False columns of the table
NotNullOk(row) ==
    /\ row.subdomain # NONE
    /\ row.tunnel_id # NONE
    /\ row.tunnel_name # NONE
    /\ row.tunnel_secret # NONE
    /\ row.public_url # NONE
    /\ row.status # NONE

\* DnsRecordsNamed without the name in the query
DnsRecordsNamed_AnyName(fqdn) == {d \in dns : d.type = "CNAME"}

\* the provider's answer to GET dns_records?type=CNAME&name=<fqdn>
DnsRecordsNamed(fqdn) == {d \in dns : d.type = "CNAME" /\ d.name = fqdn}

\* CheckDnsRecordExists that reports a record when the request fails
CheckDnsRecordExists_FailTrue(subdomain, ok) ==
    IF ok THEN DnsRecordsNamed(FullHostname(subdomain)) # {} ELSE TRUE

\* check_dns_record_exists: len(records) > 0, False when the request fails
CheckDnsRecordExists(subdomain, ok) ==
    IF ok THEN DnsRecordsNamed(FullHostname(subdomain)) # {} ELSE FALSE

\* get_tunnel_token: the fields that are encoded
GetTunnelToken(tunnel_id, tunnel_secret) ==
    [a |-> AccountId, t |-> tunnel_id, s |-> tunnel_secret]

\* Ingress with the catch-all rule first
Ingress_CatchAllFirst(hostname, local_port) ==
    << [service |-> "http_status:404"],
       [hostname |-> hostname,
        service |-> "http://localhost:" \o ToString(local_port),
        noTLSVerify |-> TRUE] >>

\* configure_tunnel_route: the ingress list that is PUT
Ingress(hostname, local_port) ==
    << [hostname |-> hostname,
        service |-> "http://localhost:" \o ToString(local_port),
        noTLSVerify |-> TRUE],
       [service |-> "http_status:404"] >>

\* ValidateApiKey without the look-up in the key list
ValidateApiKey_NoList(key) == IF ~Truthy(key) THEN 401 ELSE 0

\* validate_api_key: 0 when the key is accepted, else the status raised
ValidateApiKey(key) ==
    IF ~Truthy(key) THEN 401
    ELSE IF key \notin ApiKeysList THEN 403
    ELSE 0

\* PortOk without le=65535
PortOk_NoUpper(port) == port >= MinPort

\* CreateSubdomainRequest.localPort: Field(ge=1, le=65535)
PortOk(port) == port >= MinPort /\ port <= MaxPort

\* the times func.now() can return at the next write
Times == {t \in {now, now + 1} : t <= MaxClock}

\* a DELETE succeeds only for a resource the provider has, and can fail
CanDelete(set, id) == IF \E x \in set : x.id = id THEN BOOLEAN ELSE {FALSE}

(* ------------------------------- state -------------------------------- *)

Idle ==
    [pc |-> "idle", n |-> 0, kind |-> NONE, key |-> NONE, subdomain |-> NONE,
     localPort |-> 0, sub |-> NONE, tunnel_id |-> NONE, tunnel_name |-> NONE,
     tunnel_secret |-> NONE, created_at |-> NONE, dns_record_id |-> NONE,
     tunnel_token |-> NONE, row |-> 0, err |-> NONE, success |-> TRUE,
     printed |-> << >>]

NoResp == [status |-> 0]

Init ==
    /\ ledger = << >>
    /\ tunnels = {}
    /\ dns = {}
    /\ routes = {}
    /\ now = 0
    /\ arrived = 0
    /\ req = [w \in Workers |-> Idle]
    /\ resp = [w \in Workers |-> NoResp]
    /\ log = [w \in Workers |-> << >>]

Busy(w) == req[w].pc \notin {"idle", "done"}

\* a request arrives and goes to the first worker that is free; what the
\* worker kept of its previous request is dropped
Arrives(w) ==
    /\ ~Busy(w)
    /\ \A v \in Workers : v < w => Busy(v)
    /\ arrived < MaxReqs
    /\ arrived' = arrived + 1

\* the request as received
Received(kind, key, subdomain, port) ==
    [Idle EXCEPT !.n = arrived + 1, !.kind = kind, !.key = key,
                 !.subdomain = subdomain, !.localPort = port]

\* a call of a CloudflareManager method: ok is FALSE when it raised; for
\* check_dns_record_exists, which never raises, ok is the value it returned
Call(op, arg, ok) == [op |-> op, arg |-> arg, ok |-> ok]

Called(w, op, arg, ok) == log' = [log EXCEPT ![w] = Append(@, Call(op, arg, ok))]

Returns(w, response) == resp' = [resp EXCEPT ![w] = response]

\* HTTPException(status_code, detail)
HttpError(code, detail) == [status |-> code, detail |-> detail]

(* --------------------------- create_subdomain ------------------------- *)

\* main.py create_subdomain up to line 129: the dependencies, the request
\* validation, and the query for an active row of the supplied subdomain
CreateSubdomain(w, key, subdomain, port) ==
    /\ Arrives(w)
    /\ LET auth == ValidateApiKey(key)
           taken == Truthy(subdomain) /\ ActiveRows(ledger, subdomain) # {}
           rejected == auth # 0 \/ ~PortOk(port) \/ taken
       IN  /\ req' = [req EXCEPT ![w] =
                        [Received("create", key, subdomain, port) EXCEPT
                           !.pc = IF rejected THEN "done" ELSE "c_exists"]]
           /\ Returns(w, IF auth # 0 THEN HttpError(auth, "api key")
                         ELSE IF ~PortOk(port) THEN HttpError(422, "localPort")
                         ELSE IF taken THEN HttpError(409, "already taken")
                         ELSE NoResp)
    /\ log' = [log EXCEPT ![w] = << >>]
    /\ UNCHANGED <<ledger, tunnels, dns, routes, now>>

\* cloudflare_manager.py create_full_subdomain_setup, steps 1 and 2; the
\* exception of step 2 becomes a 500 at main.py 167-172
SetupCheckAvailable(w) ==
    /\ req[w].pc = "c_exists"
    /\ \E gen \in GenNames, ok \in BOOLEAN :
         LET subdomain == IF Truthy(req[w].subdomain) THEN req[w].subdomain ELSE gen
             exists == CheckDnsRecordExists(subdomain, ok)
         IN  /\ Called(w, "check_dns_record_exists", subdomain, exists)
             /\ req' = [req EXCEPT ![w] =
                          [@ EXCEPT !.sub = subdomain,
                                    !.pc = IF exists THEN "done" ELSE "c_tunnel"]]
             /\ Returns(w, IF exists THEN HttpError(500, "already taken") ELSE NoResp)
    /\ UNCHANGED <<ledger, tunnels, dns, routes, now, arrived>>

\* SetupCreateTunnel with the call inside the try block: its failure is
\* followed by the compensating delete_tunnel
SetupCreateTunnel_Rollback(w) ==
    /\ req[w].pc = "c_tunnel"
    /\ \E ok \in BOOLEAN, secret \in Secrets :
         LET id == TunnelIdOf(req[w].n) IN
         /\ Called(w, "create_tunnel", req[w].sub, ok)
         /\ tunnels' = IF ok
                       THEN tunnels \cup
                              {[id |-> id, name |-> req[w].sub,
                                tunnel_secret |-> secret, created_at |-> now]}
                       ELSE tunnels
         /\ req' = [req EXCEPT ![w] =
                      IF ok
                      THEN [@ EXCEPT !.tunnel_id = id, !.tunnel_name = req[w].sub,
                                     !.tunnel_secret = secret, !.created_at = now,
                                     !.pc = "c_dns"]
                      ELSE [@ EXCEPT !.err = "create_tunnel", !.pc = "c_rollback"]]
    /\ UNCHANGED <<ledger, dns, routes, now, arrived, resp>>

\* step 3: create_tunnel(tunnel_name=subdomain); its failure leaves the
\* function before the try block is entered
SetupCreateTunnel(w) ==
    /\ req[w].pc = "c_tunnel"
    /\ \E ok \in BOOLEAN, secret \in Secrets :
         LET id == TunnelIdOf(req[w].n) IN
         /\ Called(w, "create_tunnel", req[w].sub, ok)
         /\ IF ok
            THEN /\ tunnels' = tunnels \cup
                       {[id |-> id, name |-> req[w].sub, tunnel_secret |-> secret,
                         created_at |-> now]}
                 /\ req' = [req EXCEPT ![w] =
                              [@ EXCEPT !.tunnel_id = id, !.tunnel_name = req[w].sub,
                                        !.tunnel_secret = secret, !.created_at = now,
                                        !.pc = "c_dns"]]
                 /\ UNCHANGED resp
            ELSE /\ req' = [req EXCEPT ![w].pc = "done"]
                 /\ Returns(w, HttpError(500, "create_tunnel"))
                 /\ UNCHANGED tunnels
    /\ UNCHANGED <<ledger, dns, routes, now, arrived>>

\* SetupCreateDns with the failure of create_dns_record swallowed
SetupCreateDns_Swallow(w) ==
    /\ req[w].pc = "c_dns"
    /\ \E ok \in BOOLEAN :
         /\ Called(w, "create_dns_record", req[w].tunnel_id, ok)
         /\ dns' = IF ok
                   THEN dns \cup {[id |-> DnsIdOf(req[w].n), type |-> "CNAME",
                                   name |-> FullHostname(req[w].sub),
                                   content |-> TunnelTarget(req[w].tunnel_id),
                                   ttl |-> 1, proxied |-> TRUE]}
                   ELSE dns
         /\ req' = [req EXCEPT ![w] =
                      [@ EXCEPT !.dns_record_id = IF ok THEN DnsIdOf(req[w].n) ELSE NONE,
                                !.pc = "c_route"]]
    /\ UNCHANGED <<ledger, tunnels, routes, now, arrived, resp>>

\* step 4: create_dns_record(subdomain, tunnel_id)
SetupCreateDns(w) ==
    /\ req[w].pc = "c_dns"
    /\ \E ok \in BOOLEAN :
         LET id == DnsIdOf(req[w].n) IN
         /\ Called(w, "create_dns_record", req[w].tunnel_id, ok)
         /\ IF ok
            THEN /\ dns' = dns \cup
                       {[id |-> id, type |-> "CNAME",
                         name |-> FullHostname(req[w].sub),
                         content |-> TunnelTarget(req[w].tunnel_id),
                         ttl |-> 1, proxied |-> TRUE]}
                 /\ req' = [req EXCEPT ![w] =
                              [@ EXCEPT !.dns_record_id = id, !.pc = "c_route"]]
            ELSE /\ req' = [req EXCEPT ![w] =
                              [@ EXCEPT !.err = "create_dns_record",
                                        !.pc = "c_rollback"]]
                 /\ UNCHANGED dns
    /\ UNCHANGED <<ledger, tunnels, routes, now, arrived, resp>>

\* steps 5 and 6: configure_tunnel_route, then get_tunnel_token and the
\* result dictionary
SetupConfigureRoute(w) ==
    /\ req[w].pc = "c_route"
    /\ \E ok \in BOOLEAN :
         LET tid == req[w].tunnel_id
             cfg == [tunnel_id |-> tid,
                     ingress |-> Ingress(FullHostname(req[w].sub), req[w].localPort)]
         IN
         IF ok
         THEN /\ routes' = {c \in routes : c.tunnel_id # tid} \cup {cfg}
              /\ log' = [log EXCEPT ![w] = @ \o
                           << Call("configure_tunnel_route", tid, TRUE),
                              Call("get_tunnel_token", tid, TRUE) >>]
              /\ req' = [req EXCEPT ![w] =
                           [@ EXCEPT !.tunnel_token =
                                        GetTunnelToken(tid, req[w].tunnel_secret),
                                     !.pc = "c_save"]]
         ELSE /\ Called(w, "configure_tunnel_route", tid, FALSE)
              /\ req' = [req EXCEPT ![w] =
                           [@ EXCEPT !.err = "configure_tunnel_route",
                                     !.pc = "c_rollback"]]
              /\ UNCHANGED routes
    /\ UNCHANGED <<ledger, tunnels, dns, now, arrived, resp>>

\* SetupRollback that deletes the DNS record of the request as well
SetupRollback_WithDns(w) ==
    /\ req[w].pc = "c_rollback"
    /\ \E ok \in CanDelete(tunnels, req[w].tunnel_id) :
         /\ log' = [log EXCEPT ![w] = @ \o
                      << Call("delete_dns_record", req[w].dns_record_id, TRUE),
                         Call("delete_tunnel", req[w].tunnel_id, ok) >>]
         /\ tunnels' = IF ok THEN {t \in tunnels : t.id # req[w].tunnel_id} ELSE tunnels
    /\ dns' = {d \in dns : d.id # req[w].dns_record_id}
    /\ req' = [req EXCEPT ![w].pc = "done"]
    /\ Returns(w, HttpError(500, req[w].err))
    /\ UNCHANGED <<ledger, routes, now, arrived>>

\* SetupRollback with a failure of delete_tunnel raised in place of the
\* exception that was caught
SetupRollback_RaiseCleanup(w) ==
    /\ req[w].pc = "c_rollback"
    /\ \E ok \in CanDelete(tunnels, req[w].tunnel_id) :
         /\ Called(w, "delete_tunnel", req[w].tunnel_id, ok)
         /\ tunnels' = IF ok THEN {t \in tunnels : t.id # req[w].tunnel_id} ELSE tunnels
         /\ Returns(w, HttpError(500, IF ok THEN req[w].err ELSE "delete_tunnel"))
    /\ req' = [req EXCEPT ![w].pc = "done"]
    /\ UNCHANGED <<ledger, dns, routes, now, arrived>>

\* the except block of create_full_subdomain_setup: delete_tunnel, its
\* failure swallowed, the caught exception raised again (500 in main.py)
SetupRollback(w) ==
    /\ req[w].pc = "c_rollback"
    /\ \E ok \in CanDelete(tunnels, req[w].tunnel_id) :
         /\ Called(w, "delete_tunnel", req[w].tunnel_id, ok)
         /\ tunnels' = IF ok THEN {t \in tunnels : t.id # req[w].tunnel_id} ELSE tunnels
    /\ req' = [req EXCEPT ![w].pc = "done"]
    /\ Returns(w, HttpError(500, req[w].err))
    /\ UNCHANGED <<ledger, dns, routes, now, arrived>>

\* NewRow with the column default of local_port in place of the request's
NewRow_DefaultPort(q, id, t) ==
    [id |-> id, subdomain |-> q.sub, tunnel_id |-> q.tunnel_id,
     tunnel_name |-> q.tunnel_name, tunnel_secret |-> q.tunnel_secret,
     dns_record_id |-> q.dns_record_id,
     public_url |-> PublicUrl(FullHostname(q.sub)),
     local_port |-> 4936, description |-> NONE, status |-> "active",
     created_at |-> t, updated_at |-> t]

\* the row main.py builds from the result dictionary (lines 140-150)
NewRow(q, id, t) ==
    [id |-> id,
     subdomain |-> q.sub,
     tunnel_id |-> q.tunnel_id,
     tunnel_name |-> q.tunnel_name,
     tunnel_secret |-> q.tunnel_secret,
     dns_record_id |-> q.dns_record_id,
     public_url |-> PublicUrl(FullHostname(q.sub)),
     local_port |-> q.localPort,
     description |-> NONE,
     status |-> "active",
     created_at |-> t,
     updated_at |-> t]

\* SubdomainResponse built at main.py 155-163
CreateResponse(q) ==
    [status |-> 200,
     success |-> TRUE,
     subdomain |-> q.sub,
     publicUrl |-> PublicUrl(FullHostname(q.sub)),
     tunnelId |-> q.tunnel_id,
     tunnelToken |-> q.tunnel_token,
     createdAt |-> q.created_at]

\* Insert that writes over a deleted row of the same subdomain
Insert_Upsert(L, row, dbok) ==
    LET old == {i \in 1..Len(L) :
                  L[i].subdomain = row.subdomain /\ L[i].status = "deleted"}
    IN  IF ~dbok THEN [err |-> "OperationalError", ledger |-> L]
        ELSE IF old # {}
             THEN [err |-> NONE,
                   ledger |-> [L EXCEPT ![First(old)] = [row EXCEPT !.id = First(old)]]]
        ELSE IF ~(UniqueOk(L, row) /\ NotNullOk(row))
             THEN [err |-> "IntegrityError", ledger |-> L]
        ELSE [err |-> NONE, ledger |-> Append(L, row)]

\* db.add and db.commit of a new row: the error raised and the table
\* afterwards.  The INSERT is refused by a constraint (IntegrityError) or
\* by the database being unavailable (OperationalError); db.rollback then
\* leaves the table as it was
Insert(L, row, dbok) ==
    IF ~dbok THEN [err |-> "OperationalError", ledger |-> L]
    ELSE IF ~(UniqueOk(L, row) /\ NotNullOk(row))
         THEN [err |-> "IntegrityError", ledger |-> L]
    ELSE [err |-> NONE, ledger |-> Append(L, row)]

\* main.py 139-172: the row, db.add, db.commit, the response; a failed
\* commit is answered 500
CreateSave(w) ==
    /\ req[w].pc = "c_save"
    /\ \E dbok \in BOOLEAN, t \in Times :
         LET c == Insert(ledger, NewRow(req[w], Len(ledger) + 1, t), dbok) IN
         /\ ledger' = c.ledger
         /\ now' = IF c.err = NONE THEN t ELSE now
         /\ Returns(w, IF c.err = NONE THEN CreateResponse(req[w])
                       ELSE HttpError(500, c.err))
    /\ req' = [req EXCEPT ![w].pc = "done"]
    /\ UNCHANGED <<tunnels, dns, routes, arrived, log>>

(* --------------------------- delete_subdomain ------------------------- *)

\* main.py delete_subdomain up to line 246: the dependencies and the query
\* for the active row; the row found is held as an ORM object
DeleteSubdomain(w, key, subdomain) ==
    /\ Arrives(w)
    /\ LET auth == ValidateApiKey(key)
           row == First(ActiveRows(ledger, subdomain))
           rejected == auth # 0 \/ row = 0
       IN  /\ req' = [req EXCEPT ![w] =
                        [Received("delete", key, subdomain, 0) EXCEPT
                           !.sub = subdomain,
                           !.row = IF rejected THEN 0 ELSE row,
                           !.tunnel_id = IF rejected THEN NONE ELSE ledger[row].tunnel_id,
                           !.dns_record_id =
                              IF rejected THEN NONE ELSE ledger[row].dns_record_id,
                           !.pc = IF rejected THEN "done"
                                  ELSE IF Truthy(ledger[row].dns_record_id) THEN "d_dns"
                                  ELSE "d_tunnel"]]
           /\ Returns(w, IF auth # 0 THEN HttpError(auth, "api key")
                         ELSE IF row = 0 THEN HttpError(404, "not found")
                         ELSE NoResp)
    /\ log' = [log EXCEPT ![w] = << >>]
    /\ UNCHANGED <<ledger, tunnels, dns, routes, now>>

\* CleanupDns with a failure of delete_dns_record skipping delete_tunnel
CleanupDns_StopOnFail(w) ==
    /\ req[w].pc = "d_dns"
    /\ \E ok \in CanDelete(dns, req[w].dns_record_id) :
         /\ Called(w, "delete_dns_record", req[w].dns_record_id, ok)
         /\ dns' = IF ok THEN {d \in dns : d.id # req[w].dns_record_id} ELSE dns
         /\ req' = [req EXCEPT ![w] =
                      [@ EXCEPT !.success = ok,
                                !.pc = IF ok THEN "d_tunnel" ELSE "d_save"]]
    /\ UNCHANGED <<ledger, tunnels, routes, now, arrived, resp>>

\* cleanup_subdomain lines 319-325: delete_dns_record, a failure printed
CleanupDns(w) ==
    /\ req[w].pc = "d_dns"
    /\ \E ok \in CanDelete(dns, req[w].dns_record_id) :
         /\ Called(w, "delete_dns_record", req[w].dns_record_id, ok)
         /\ dns' = IF ok THEN {d \in dns : d.id # req[w].dns_record_id} ELSE dns
         /\ req' = [req EXCEPT ![w] =
                      [@ EXCEPT !.success = ok,
                                !.printed = IF ok THEN @
                                            ELSE Append(@, "Failed to delete DNS record"),
                                !.pc = "d_tunnel"]]
    /\ UNCHANGED <<ledger, tunnels, routes, now, arrived, resp>>

\* CleanupTunnel with a failure of delete_tunnel ending the request
CleanupTunnel_Abort(w) ==
    /\ req[w].pc = "d_tunnel"
    /\ \E ok \in CanDelete(tunnels, req[w].tunnel_id) :
         /\ Called(w, "delete_tunnel", req[w].tunnel_id, ok)
         /\ tunnels' = IF ok THEN {t \in tunnels : t.id # req[w].tunnel_id} ELSE tunnels
         /\ req' = [req EXCEPT ![w].pc = IF ok THEN "d_save" ELSE "done"]
         /\ IF ok THEN UNCHANGED resp
            ELSE Returns(w, HttpError(500, "delete_tunnel"))
    /\ UNCHANGED <<ledger, dns, routes, now, arrived>>

\* cleanup_subdomain lines 327-334: delete_tunnel, a failure printed
CleanupTunnel(w) ==
    /\ req[w].pc = "d_tunnel"
    /\ \E ok \in CanDelete(tunnels, req[w].tunnel_id) :
         /\ Called(w, "delete_tunnel", req[w].tunnel_id, ok)
         /\ tunnels' = IF ok THEN {t \in tunnels : t.id # req[w].tunnel_id} ELSE tunnels
         /\ req' = [req EXCEPT ![w] =
                      [@ EXCEPT !.success = IF ok THEN @ ELSE FALSE,
                                !.printed = IF ok THEN @
                                            ELSE Append(@, "Failed to delete tunnel"),
                                !.pc = "d_save"]]
    /\ UNCHANGED <<ledger, dns, routes, now, arrived, resp>>

\* MarkDeleted as a DELETE of the row
MarkDeleted_Remove(L, row, t) == SelectSeq(L, LAMBDA x : x.id # row)

\* the UPDATE of db.commit() for tunnel.status = "deleted": the row of the
\* ORM object, by primary key; onupdate=func.now() sets updated_at
MarkDeleted(L, row, t) ==
    [L EXCEPT ![row] = [@ EXCEPT !.status = "deleted", !.updated_at = t]]

\* DeleteSubdomainResponse built at main.py 259-262
DeleteResponse(q) == [status |-> 200, success |-> TRUE, message |-> "deleted"]

\* DeleteSave that answers success when the commit failed
DeleteSave_SuccessOnFail(w) ==
    /\ req[w].pc = "d_save"
    /\ \E dbok \in BOOLEAN, t \in Times :
         /\ ledger' = IF dbok THEN MarkDeleted(ledger, req[w].row, t) ELSE ledger
         /\ now' = IF dbok THEN t ELSE now
         /\ Returns(w, DeleteResponse(req[w]))
    /\ req' = [req EXCEPT ![w].pc = "done"]
    /\ UNCHANGED <<tunnels, dns, routes, arrived, log>>

\* main.py 255-271: the status change, db.commit, the response; a failed
\* commit is rolled back and answered 500
DeleteSave(w) ==
    /\ req[w].pc = "d_save"
    /\ \E dbok \in BOOLEAN, t \in Times :
         IF dbok
         THEN /\ ledger' = MarkDeleted(ledger, req[w].row, t)
              /\ now' = t
              /\ Returns(w, DeleteResponse(req[w]))
         ELSE /\ Returns(w, HttpError(500, "OperationalError"))
              /\ UNCHANGED <<ledger, now>>
    /\ req' = [req EXCEPT ![w].pc = "done"]
    /\ UNCHANGED <<tunnels, dns, routes, arrived, log>>

(* --------------------------- check_subdomain -------------------------- *)

\* CheckSubdomainResponse
CheckResponse(subdomain, available, message) ==
    [status |-> 200, subdomain |-> subdomain, available |-> available,
     message |-> message]

\* CheckSubdomain with the query on the subdomain alone, whatever the status
CheckSubdomain_AnyStatus(w, key, subdomain) ==
    /\ Arrives(w)
    /\ LET auth == ValidateApiKey(key)
           existing == RowsOf(ledger, subdomain) # {}
       IN  /\ req' = [req EXCEPT ![w] =
                        [Received("check", key, subdomain, 0) EXCEPT
                           !.sub = subdomain,
                           !.pc = IF auth # 0 \/ existing THEN "done" ELSE "k_exists"]]
           /\ Returns(w, IF auth # 0 THEN HttpError(auth, "api key")
                         ELSE IF existing
                              THEN CheckResponse(subdomain, FALSE, "already taken")
                         ELSE NoResp)
    /\ log' = [log EXCEPT ![w] = << >>]
    /\ UNCHANGED <<ledger, tunnels, dns, routes, now>>

\* main.py check_subdomain up to line 198: the dependencies and the query
\* for an active row
CheckSubdomain(w, key, subdomain) ==
    /\ Arrives(w)
    /\ LET auth == ValidateApiKey(key)
           existing == ActiveRows(ledger, subdomain) # {}
       IN  /\ req' = [req EXCEPT ![w] =
                        [Received("check", key, subdomain, 0) EXCEPT
                           !.sub = subdomain,
                           !.pc = IF auth # 0 \/ existing THEN "done" ELSE "k_exists"]]
           /\ Returns(w, IF auth # 0 THEN HttpError(auth, "api key")
                         ELSE IF existing
                              THEN CheckResponse(subdomain, FALSE, "already taken")
                         ELSE NoResp)
    /\ log' = [log EXCEPT ![w] = << >>]
    /\ UNCHANGED <<ledger, tunnels, dns, routes, now>>

\* CheckDns with the answer of check_dns_record_exists left unread
CheckDns_IgnoreDns(w) ==
    /\ req[w].pc = "k_exists"
    /\ \E ok \in BOOLEAN :
         /\ Called(w, "check_dns_record_exists", req[w].sub,
                   CheckDnsRecordExists(req[w].sub, ok))
         /\ Returns(w, CheckResponse(req[w].sub, TRUE, "available"))
    /\ req' = [req EXCEPT ![w].pc = "done"]
    /\ UNCHANGED <<ledger, tunnels, dns, routes, now, arrived>>

\* CheckDns that removes the DNS record it found without a ledger row
CheckDns_Cleanup(w) ==
    /\ req[w].pc = "k_exists"
    /\ \E ok \in BOOLEAN :
         LET dns_exists == CheckDnsRecordExists(req[w].sub, ok) IN
         /\ Called(w, "check_dns_record_exists", req[w].sub, dns_exists)
         /\ dns' = IF dns_exists
                   THEN dns \ DnsRecordsNamed(FullHostname(req[w].sub))
                   ELSE dns
         /\ Returns(w, IF dns_exists
                       THEN CheckResponse(req[w].sub, FALSE, "exists in DNS")
                       ELSE CheckResponse(req[w].sub, TRUE, "available"))
    /\ req' = [req EXCEPT ![w].pc = "done"]
    /\ UNCHANGED <<ledger, tunnels, routes, now, arrived>>

\* main.py 200-215: check_dns_record_exists and the answer
CheckDns(w) ==
    /\ req[w].pc = "k_exists"
    /\ \E ok \in BOOLEAN :
         LET dns_exists == CheckDnsRecordExists(req[w].sub, ok) IN
         /\ Called(w, "check_dns_record_exists", req[w].sub, dns_exists)
         /\ Returns(w, IF dns_exists
                       THEN CheckResponse(req[w].sub, FALSE, "exists in DNS")
                       ELSE CheckResponse(req[w].sub, TRUE, "available"))
    /\ req' = [req EXCEPT ![w].pc = "done"]
    /\ UNCHANGED <<ledger, tunnels, dns, routes, now, arrived>>

(* ---------------------- list_subdomains, get ------------------------- *)

\* the rows query.filter(Tunnel.status == status_filter) keeps
Filtered(L, status_filter) ==
    {i \in 1..Len(L) :
        (Truthy(status_filter) /\ status_filter # "all") => L[i].status = status_filter}

\* OrderedDesc with the oldest row first
OrderedDesc_Asc(L, ids) ==
    {o \in [1..Cardinality(ids) -> ids] :
        /\ \A i, j \in DOMAIN o : i # j => o[i] # o[j]
        /\ \A i, j \in DOMAIN o : i < j => L[o[i]].created_at <= L[o[j]].created_at}

\* order_by(created_at.desc()): the orders the database may return, rows
\* of equal created_at in any order
OrderedDesc(L, ids) ==
    {o \in [1..Cardinality(ids) -> ids] :
        /\ \A i, j \in DOMAIN o : i # j => o[i] # o[j]
        /\ \A i, j \in DOMAIN o : i < j => L[o[i]].created_at >= L[o[j]].created_at}

\* .limit(n); SQLite reads a negative LIMIT as no limit
Limit(o, n) == IF n < 0 THEN o ELSE SubSeq(o, 1, IF n < Len(o) THEN n ELSE Len(o))

\* status_filter: Optional[str] = "active"
StatusFilterOf(sent) == IF sent = NONE THEN "active" ELSE sent

\* TunnelListItem
ListItem(t) ==
    [subdomain |-> t.subdomain, publicUrl |-> t.public_url, tunnelId |-> t.tunnel_id,
     createdAt |-> t.created_at, status |-> t.status]

\* ListSubdomainsResponse for the rows o, in this order
ListResponse(L, o) ==
    [status |-> 200, success |-> TRUE,
     subdomains |-> [k \in DOMAIN o |-> ListItem(L[o[k]])]]

\* main.py list_subdomains: one query, read only.  A database other than
\* SQLite refuses a negative LIMIT, which the handler answers 500
ListSubdomains(w, key, sent, limit) ==
    /\ Arrives(w)
    /\ req' = [req EXCEPT ![w] =
                 [Received("list", key, sent, limit) EXCEPT !.pc = "done"]]
    /\ IF ValidateApiKey(key) # 0
       THEN Returns(w, HttpError(ValidateApiKey(key), "api key"))
       ELSE \/ \E o \in OrderedDesc(ledger, Filtered(ledger, StatusFilterOf(sent))) :
                 Returns(w, ListResponse(ledger, Limit(o, limit)))
            \/ limit < 0 /\ Returns(w, HttpError(500, "list"))
    /\ log' = [log EXCEPT ![w] = << >>]
    /\ UNCHANGED <<ledger, tunnels, dns, routes, now>>

\* ToDict with the tunnel_secret column included
ToDict_WithSecret(t) ==
    [id |-> t.id, subdomain |-> t.subdomain, tunnelId |-> t.tunnel_id,
     tunnelName |-> t.tunnel_name, tunnelSecret |-> t.tunnel_secret,
     dnsRecordId |-> t.dns_record_id,
     publicUrl |-> t.public_url, localPort |-> t.local_port,
     description |-> t.description, status |-> t.status,
     createdAt |-> t.created_at, updatedAt |-> t.updated_at]

\* Tunnel.to_dict (models.py 46-60)
ToDict(t) ==
    [id |-> t.id, subdomain |-> t.subdomain, tunnelId |-> t.tunnel_id,
     tunnelName |-> t.tunnel_name, dnsRecordId |-> t.dns_record_id,
     publicUrl |-> t.public_url, localPort |-> t.local_port,
     description |-> t.description, status |-> t.status,
     createdAt |-> t.created_at, updatedAt |-> t.updated_at]

\* main.py get_subdomain_details: one query on the subdomain alone
GetSubdomainDetails(w, key, subdomain) ==
    /\ Arrives(w)
    /\ LET auth == ValidateApiKey(key)
           row == First(RowsOf(ledger, subdomain))
       IN
       /\ req' = [req EXCEPT ![w] =
                    [Received("get", key, subdomain, 0) EXCEPT
                       !.sub = subdomain, !.row = row, !.pc = "done"]]
       /\ Returns(w, IF auth # 0 THEN HttpError(auth, "api key")
                     ELSE IF row = 0 THEN HttpError(404, "not found")
                     ELSE [status |-> 200, success |-> TRUE,
                           subdomain |-> ToDict(ledger[row])])
    /\ log' = [log EXCEPT ![w] = << >>]
    /\ UNCHANGED <<ledger, tunnels, dns, routes, now>>

\* the requests of Spec carry an accepted key and a port in range
ValidKeys == {k \in Keys : ValidateApiKey(k) = 0}
ValidPorts == {p \in Ports : PortOk(p)}

\* the provisioning and deprovisioning sagas of the two workers, interleaved
\* at every call to the provider and at every write of the ledger
Next ==
    \/ \E w \in Workers, k \in ValidKeys, s \in Names \cup {NONE}, p \in ValidPorts :
         CreateSubdomain(w, k, s, p)
    \/ \E w \in Workers : SetupCheckAvailable(w)
    \/ \E w \in Workers : SetupCreateTunnel(w)
    \/ \E w \in Workers : SetupCreateDns(w)
    \/ \E w \in Workers : SetupConfigureRoute(w)
    \/ \E w \in Workers : SetupRollback(w)
    \/ \E w \in Workers : CreateSave(w)
    \/ \E w \in Workers, k \in ValidKeys, s \in Subdomains : DeleteSubdomain(w, k, s)
    \/ \E w \in Workers : CleanupDns(w)
    \/ \E w \in Workers : CleanupTunnel(w)
    \/ \E w \in Workers : DeleteSave(w)

Spec == Init /\ [][Next]_vars

\* the worker of a service that handles one request at a time
Sequential == {1}

\* the five endpoints called one after the other, with any key and any port
NextApi ==
    \/ \E w \in Sequential, k \in Keys, s \in Names \cup {NONE},
          p \in Ports \cup EdgePorts :
         CreateSubdomain(w, k, s, p)
    \/ \E w \in Sequential : SetupCheckAvailable(w)
    \/ \E w \in Sequential : SetupCreateTunnel(w)
    \/ \E w \in Sequential : SetupCreateDns(w)
    \/ \E w \in Sequential : SetupConfigureRoute(w)
    \/ \E w \in Sequential : SetupRollback(w)
    \/ \E w \in Sequential : CreateSave(w)
    \/ \E w \in Sequential, k \in Keys, s \in Subdomains : DeleteSubdomain(w, k, s)
    \/ \E w \in Sequential : CleanupDns(w)
    \/ \E w \in Sequential : CleanupTunnel(w)
    \/ \E w \in Sequential : DeleteSave(w)
    \/ \E w \in Sequential, k \in Keys, s \in Subdomains : CheckSubdomain(w, k, s)
    \/ \E w \in Sequential : CheckDns(w)
    \/ \E w \in Sequential, k \in Keys, f \in StatusFilters, n \in Limits :
         ListSubdomains(w, k, f, n)
    \/ \E w \in Sequential, k \in Keys, s \in Subdomains :
         GetSubdomainDetails(w, k, s)

SpecApi == Init /\ [][NextApi]_vars

\* the sagas of Next together with the availability check, the two workers
\* interleaved at every call to the provider and at every write
NextCheck ==
    \/ Next
    \/ \E w \in Workers, k \in ValidKeys, s \in Subdomains : CheckSubdomain(w, k, s)
    \/ \E w \in Workers : CheckDns(w)

SpecCheck == Init /\ [][NextCheck]_vars

(* --------------------------- get_tunnel_token ------------------------- *)

\* Text is a sequence of code points, bytes are a sequence of 0..255.

\* characters of tunnel id and secret together
MaxLen == 2

\* "test-account"
AccountIdText == <<116, 101, 115, 116, 45, 97, 99, 99, 111, 117, 110, 116>>

\* a letter, the quote, the backslash, the newline, e acute, U+1F600
Alphabet == {97, 34, 92, 10, 233, 128512}

Texts(n) == UNION {[1..k -> Alphabet] : k \in 0..n}

\* the pairs of tunnel id and tunnel secret
TokenInputs ==
    {p \in Texts(MaxLen) \X Texts(MaxLen) : Len(p[1]) + Len(p[2]) <= MaxLen}

\* one digit of format(n, "04x")
HexDigit(d) == IF d < 10 THEN 48 + d ELSE 87 + d

\* "\\u{0:04x}".format(n)
UEscape(n) ==
    <<92, 117, HexDigit(n \div 4096), HexDigit((n \div 256) % 16),
      HexDigit((n \div 16) % 16), HexDigit(n % 16)>>

\* EscapeAscii that leaves the quote as it is
EscapeAscii_NoQuote(c) ==
    IF c = 92 THEN <<92, 92>>
    ELSE IF c >= 32 /\ c <= 126 THEN <<c>>
    ELSE IF c = 10 THEN <<92, 110>>
    ELSE IF c < 65536 THEN UEscape(c)
    ELSE UEscape(55296 + (((c - 65536) \div 1024) % 1024))
            \o UEscape(56320 + ((c - 65536) % 1024))

\* json.dumps with ensure_ascii: what one character of a string becomes
EscapeAscii(c) ==
    CASE c = 92 -> <<92, 92>>
      [] c = 34 -> <<92, 34>>
      [] c = 8  -> <<92, 98>>
      [] c = 12 -> <<92, 102>>
      [] c = 10 -> <<92, 110>>
      [] c = 13 -> <<92, 114>>
      [] c = 9  -> <<92, 116>>
      [] OTHER  ->
           IF c >= 32 /\ c <= 126 THEN <<c>>
           ELSE IF c < 65536 THEN UEscape(c)
           ELSE UEscape(55296 + (((c - 65536) \div 1024) % 1024))
                   \o UEscape(56320 + ((c - 65536) % 1024))

RECURSIVE EscapeAll(_)
EscapeAll(s) == IF s = << >> THEN << >> ELSE EscapeAscii(Head(s)) \o EscapeAll(Tail(s))

\* json.dumps of a str
JsonString(s) == <<34>> \o EscapeAll(s) \o <<34>>

\* json.dumps(token_data): {"a": ..., "t": ..., "s": ...}, keys in the
\* order of the dict literal, separators ", " and ": "
JsonDumps(data) ==
    <<123>> \o <<34, 97, 34, 58, 32>> \o JsonString(data.a)
            \o <<44, 32>> \o <<34, 116, 34, 58, 32>> \o JsonString(data.t)
            \o <<44, 32>> \o <<34, 115, 34, 58, 32>> \o JsonString(data.s)
            \o <<125>>

\* str.encode("utf-8") of one code point
Utf8Of(c) ==
    IF c < 128 THEN <<c>>
    ELSE IF c < 2048 THEN <<192 + (c \div 64), 128 + (c % 64)>>
    ELSE IF c < 65536
         THEN <<224 + (c \div 4096), 128 + ((c \div 64) % 64), 128 + (c % 64)>>
    ELSE <<240 + (c \div 262144), 128 + ((c \div 4096) % 64),
           128 + ((c \div 64) % 64), 128 + (c % 64)>>

RECURSIVE Utf8Encode(_)
Utf8Encode(s) == IF s = << >> THEN << >> ELSE Utf8Of(Head(s)) \o Utf8Encode(Tail(s))

\* the base64 alphabet: A-Z, a-z, 0-9, +, /
B64Char(i) ==
    IF i < 26 THEN 65 + i
    ELSE IF i < 52 THEN 71 + i
    ELSE IF i < 62 THEN i - 4
    ELSE IF i = 62 THEN 43 ELSE 47

\* base64.b64encode: three bytes to four characters, padded with "="
RECURSIVE B64Encode(_)
B64Encode(b) ==
    IF Len(b) = 0 THEN << >>
    ELSE IF Len(b) = 1
         THEN <<B64Char(b[1] \div 4), B64Char((b[1] % 4) * 16), 61, 61>>
    ELSE IF Len(b) = 2
         THEN <<B64Char(b[1] \div 4), B64Char(((b[1] % 4) * 16) + (b[2] \div 16)),
                B64Char((b[2] % 16) * 4), 61>>
    ELSE <<B64Char(b[1] \div 4), B64Char(((b[1] % 4) * 16) + (b[2] \div 16)),
           B64Char(((b[2] % 16) * 4) + (b[3] \div 64)), B64Char(b[3] % 64)>>
         \o B64Encode(SubSeq(b, 4, Len(b)))

\* bytes.decode("utf-8"): the code point at byte i and the bytes it takes
Utf8At(b, i) ==
    IF b[i] < 128 THEN [c |-> b[i], n |-> 1]
    ELSE IF b[i] < 224 THEN [c |-> ((b[i] - 192) * 64) + (b[i + 1] - 128), n |-> 2]
    ELSE IF b[i] < 240
         THEN [c |-> ((b[i] - 224) * 4096) + ((b[i + 1] - 128) * 64) + (b[i + 2] - 128),
               n |-> 3]
    ELSE [c |-> ((b[i] - 240) * 262144) + ((b[i + 1] - 128) * 4096)
                  + ((b[i + 2] - 128) * 64) + (b[i + 3] - 128),
          n |-> 4]

RECURSIVE Utf8DecodeFrom(_, _)
Utf8DecodeFrom(b, i) ==
    IF i > Len(b) THEN << >>
    ELSE <<Utf8At(b, i).c>> \o Utf8DecodeFrom(b, i + Utf8At(b, i).n)

Utf8Decode(b) == Utf8DecodeFrom(b, 1)

\* get_tunnel_token lines 234-238: dumps, encode, b64encode, decode
EncodeToken(token_data) == Utf8Decode(B64Encode(Utf8Encode(JsonDumps(token_data))))

\* a CloudflareManager about to issue the token of a tunnel: any tunnel id
\* and any secret
InitToken ==
    /\ ledger = << >>
    /\ tunnels = {}
    /\ dns = {}
    /\ routes = {}
    /\ now = 0
    /\ arrived = 0
    /\ \E p \in TokenInputs :
         req = [w \in Workers |->
                  IF w = 1
                  THEN [Idle EXCEPT !.pc = "t_token", !.kind = "token",
                                    !.tunnel_id = p[1], !.tunnel_secret = p[2]]
                  ELSE Idle]
    /\ resp = [w \in Workers |-> NoResp]
    /\ log = [w \in Workers |-> << >>]

\* get_tunnel_token(tunnel_id, tunnel_secret)
IssueToken(w) ==
    /\ req[w].pc = "t_token"
    /\ req' = [req EXCEPT ![w] =
                 [@ EXCEPT !.tunnel_token =
                              EncodeToken([a |-> AccountIdText, t |-> req[w].tunnel_id,
                                           s |-> req[w].tunnel_secret]),
                           !.pc = "done"]]
    /\ Called(w, "get_tunnel_token", req[w].tunnel_id, TRUE)
    /\ UNCHANGED <<ledger, tunnels, dns, routes, now, arrived, resp>>

NextToken == \E w \in Workers : IssueToken(w)

SpecToken == InitToken /\ [][NextToken]_vars

(* -------------------------- generate_subdomain ------------------------ *)

\* names as sequences of code points.  string.ascii_lowercase +
\* string.digits: a to z, then 0 to 9
SuffixAlphabet == [i \in 1..36 |-> IF i <= 26 THEN 96 + i ELSE 21 + i]

\* k=8
SuffixLength == 8

\* the positions of the alphabet a draw may fall on: a and 9
Draws == {1, 36}

\* "agent", the default of generate_subdomain, and "agentstudio", the
\* default of generate_tunnel_name
Prefixes ==
    {<<97, 103, 101, 110, 116>>,
     <<97, 103, 101, 110, 116, 115, 116, 117, 100, 105, 111>>}

\* RandomChoices that draws one character less
RandomChoices_OneLess(population, k, draw) == [i \in 1..(k - 1) |-> population[draw[i]]]

\* random.choices(population, k=k): k draws with replacement, draw[i] the
\* position the i-th falls on
RandomChoices(population, k, draw) == [i \in 1..k |-> population[draw[i]]]

\* generate_subdomain and generate_tunnel_name: f"{prefix}-{random_suffix}"
GenerateSubdomain(prefix, draw) ==
    prefix \o <<45>> \o RandomChoices(SuffixAlphabet, SuffixLength, draw)

\* two callers about to generate a name with a prefix each
InitGen ==
    /\ ledger = << >>
    /\ tunnels = {}
    /\ dns = {}
    /\ routes = {}
    /\ now = 0
    /\ arrived = 0
    /\ \E p \in [Workers -> Prefixes] :
         req = [w \in Workers |->
                  [Idle EXCEPT !.pc = "g_name", !.kind = "generate",
                               !.subdomain = p[w]]]
    /\ resp = [w \in Workers |-> NoResp]
    /\ log = [w \in Workers |-> << >>]

\* one call of generate_subdomain(prefix)
Generate(w) ==
    /\ req[w].pc = "g_name"
    /\ \E draw \in [1..SuffixLength -> Draws] :
         req' = [req EXCEPT ![w] =
                   [@ EXCEPT !.sub = GenerateSubdomain(req[w].subdomain, draw),
                             !.pc = "done"]]
    /\ UNCHANGED <<ledger, tunnels, dns, routes, now, arrived, resp, log>>

NextGen == \E w \in Workers : Generate(w)

SpecGen == InitGen /\ [][NextGen]_vars

(* ------------------------------ claims -------------------------------- *)

\* the mutating provider calls
Mutating == {"create_tunnel", "create_dns_record", "configure_tunnel_route",
             "delete_tunnel", "delete_dns_record"}

\* the calls of request w, by name and outcome
Ops(w) == [k \in DOMAIN log[w] |-> <<log[w][k].op, log[w][k].ok>>]

\* the rows whose tunnel is the one the n-th request created
RowsWrittenBy(n) == {i \in DOMAIN ledger : ledger[i].tunnel_id = "tun-" \o ToString(n)}

\* the rows of subdomain s in table L that have status st
RowsIn(L, s, st) == {i \in DOMAIN L : L[i].subdomain = s /\ L[i].status = st}

\* the active rows of subdomain s
ActiveOf(s) == RowsIn(ledger, s, "active")

\* the deleted rows of subdomain s
DeletedOf(s) == RowsIn(ledger, s, "deleted")

\* the provider has a DNS record for subdomain s
DnsNamed(s) == \E d \in dns : d.name = s \o "." \o ParentDomain

\* C1: in every reachable state, no two active rows have the same
\* subdomain and no two active rows have the same tunnel id.
C1_ActiveUnique ==
    \A i, j \in DOMAIN ledger :
        (i # j /\ ledger[i].status = "active" /\ ledger[j].status = "active")
        => /\ ledger[i].subdomain # ledger[j].subdomain
           /\ ledger[i].tunnel_id # ledger[j].tunnel_id

\* C1 witness: two creates of one subdomain both passed the query for an
\* active row; one was committed, the other refused by the table.
C1_Witness ==
    \E v, w \in Workers :
        /\ v # w
        /\ req[v].kind = "create" /\ req[w].kind = "create"
        /\ req[v].sub = req[w].sub
        /\ resp[v].status = 200
        /\ resp[w] = [status |-> 500, detail |-> "IntegrityError"]
        /\ ActiveOf(req[v].sub) # {}

\* the first two requests, served side by side, are creates of the same
\* supplied subdomain, both have returned, and no provider call and no
\* database operation of theirs failed
C2_Case ==
    /\ req[1].n = 1 /\ req[2].n = 2
    /\ \A w \in {1, 2} :
         /\ req[w].kind = "create"
         /\ req[w].pc = "done"
         /\ req[w].subdomain = req[1].subdomain
         /\ req[w].subdomain # NONE
         /\ \A k \in DOMAIN log[w] : log[w][k].op \in Mutating => log[w][k].ok
         /\ resp[w] # [status |-> 500, detail |-> "OperationalError"]

\* C2 (as claimed): of concurrent creates of one supplied subdomain that was
\* free before, exactly one ends with an active row, and every other one is
\* refused and has made no mutating provider call.  The refusal is allowed
\* any error status here, not only 409, so that a violation shows a provider
\* call made by a request that did not win.
C2_OneWinsOthersConflict ==
    C2_Case =>
        \E v \in {1, 2} :
            /\ resp[v].status = 200
            /\ Cardinality(ActiveOf(req[v].subdomain)) = 1
            /\ \A w \in {1, 2} \ {v} :
                 /\ resp[w].status >= 400
                 /\ \A k \in DOMAIN log[w] : log[w][k].op \notin Mutating

\* C3: a row is in the ledger for a create request only if that request's
\* create_tunnel, create_dns_record, configure_tunnel_route and
\* get_tunnel_token all succeeded, in this order, before the row was
\* written; a create request in which one of these steps failed has
\* written no row.
C3_RowOnlyAfterAllSteps ==
    \A w \in Workers :
        req[w].kind = "create" =>
            /\ RowsWrittenBy(req[w].n) # {} =>
                 /\ Len(log[w]) = 5
                 /\ SubSeq(Ops(w), 2, 5) =
                       << <<"create_tunnel", TRUE>>, <<"create_dns_record", TRUE>>,
                          <<"configure_tunnel_route", TRUE>>, <<"get_tunnel_token", TRUE>> >>
            /\ (\E k \in DOMAIN log[w] : log[w][k].op \in Mutating /\ ~log[w][k].ok)
                 => RowsWrittenBy(req[w].n) = {}

\* C3 witness: one create has written its row and another, whose DNS step
\* failed, has returned.
C3_Witness ==
    \E v, w \in Workers :
        /\ req[v].kind = "create" /\ RowsWrittenBy(req[v].n) # {}
        /\ req[w].kind = "create" /\ req[w].pc = "done"
        /\ \E k \in DOMAIN log[w] : log[w][k] = Call("create_dns_record", "tun-" \o ToString(req[w].n), FALSE)

\* create request w: create_tunnel succeeded, create_dns_record failed,
\* and the request has returned
C4_Case(w) ==
    /\ req[w].kind = "create"
    /\ req[w].pc = "done"
    /\ Len(log[w]) >= 3
    /\ Ops(w)[2] = <<"create_tunnel", TRUE>>
    /\ Ops(w)[3] = <<"create_dns_record", FALSE>>

\* C4: when create_dns_record fails after create_tunnel succeeded,
\* delete_tunnel is called once for the tunnel just created, no row is
\* written, and the caller gets the DNS failure, also when delete_tunnel
\* itself fails.
C4_DnsFailureCompensated ==
    \A w \in Workers :
        C4_Case(w) =>
            /\ Len(log[w]) = 4
            /\ log[w][4].op = "delete_tunnel"
            /\ log[w][4].arg = "tun-" \o ToString(req[w].n)
            /\ log[w][2].arg = req[w].sub
            /\ RowsWrittenBy(req[w].n) = {}
            /\ resp[w] = [status |-> 500, detail |-> "create_dns_record"]

\* C4 witness: the DNS step failed and the compensating delete_tunnel failed
\* too.
C4_Witness ==
    \E w \in Workers :
        /\ C4_Case(w)
        /\ Len(log[w]) = 4
        /\ log[w][4].op = "delete_tunnel" /\ ~log[w][4].ok

\* C5: when a create request returns success for subdomain s, the ledger
\* holds exactly one active row for s; the row has a tunnel id, a DNS record
\* id, the requested port and the URL https://s.<parent domain>, and the
\* response carries the same URL and tunnel id.
C5_SuccessfulCreate ==
    [][\A w \in Workers :
         (req[w].pc = "c_save" /\ resp'[w].status = 200) =>
            LET s == req[w].sub IN
            /\ req[w].subdomain # NONE => s = req[w].subdomain
            /\ resp'[w].subdomain = s
            /\ Cardinality(RowsIn(ledger', s, "active")) = 1
            /\ \A i \in RowsIn(ledger', s, "active") :
                 /\ ledger'[i].tunnel_id \notin {NONE, ""}
                 /\ ledger'[i].dns_record_id \notin {NONE, ""}
                 /\ ledger'[i].local_port = req[w].localPort
                 /\ ledger'[i].public_url = "https://" \o s \o "." \o ParentDomain
                 /\ resp'[w].publicUrl = ledger'[i].public_url
                 /\ resp'[w].tunnelId = ledger'[i].tunnel_id]_vars

\* C5 witness: a create has returned success and its row is active.
C5_Witness ==
    \E w \in Workers :
        /\ req[w].kind = "create" /\ req[w].pc = "done" /\ resp[w].status = 200
        /\ \E i \in ActiveOf(req[w].sub) : ledger[i].tunnel_id = resp[w].tunnelId

\* C6: a create request (accepted key, port in range) whose supplied
\* subdomain has an active row is answered 409 at once: it makes no provider
\* call, and the ledger and the provider are unchanged.
C6_ActiveNameRefused ==
    [][\A w \in Workers :
         ( /\ arrived' = arrived + 1
           /\ req'[w].n = arrived'
           /\ req'[w].kind = "create"
           /\ req'[w].key \in ApiKeysList
           /\ req'[w].localPort \in 1..65535
           /\ req'[w].subdomain # NONE
           /\ RowsIn(ledger, req'[w].subdomain, "active") # {} )
         => /\ resp'[w].status = 409
            /\ req'[w].pc = "done"
            /\ log'[w] = << >>
            /\ ledger' = ledger
            /\ <<tunnels', dns', routes'>> = <<tunnels, dns, routes>>]_vars

\* C6 witness: a create was answered 409 while the name has an active row.
C6_Witness ==
    \E w \in Workers :
        /\ req[w].kind = "create" /\ req[w].pc = "done"
        /\ resp[w].status = 409
        /\ log[w] = << >>
        /\ ActiveOf(req[w].subdomain) # {}

\* C7 (as claimed): a create request for a subdomain with no active row but
\* an existing provider DNS record is rejected with 409 when it reaches the
\* availability step, and writes nothing.
C7_DnsExistsConflict ==
    [][\A w \in Workers :
         ( /\ req[w].pc = "c_exists" /\ req'[w].pc # "c_exists"
           /\ DnsNamed(req'[w].sub)
           /\ RowsIn(ledger, req'[w].sub, "active") = {} )
         => /\ req'[w].pc = "done"
            /\ resp'[w].status = 409
            /\ ledger' = ledger]_vars

\* C8 (as claimed): with requests served one after another, a create for a
\* name whose only rows are deleted, with nothing of the deleted rows left
\* at the provider, succeeds when its provider steps succeeded and the
\* database is available: it adds an active row and leaves the deleted rows
\* as they are.
C8_DeletedNameReusable ==
    [][\A w \in Workers :
         LET s == req[w].sub IN
         ( /\ req[w].pc = "c_save" /\ req'[w].pc = "done"
           /\ \A v \in Workers \ {w} : req[v].pc = "idle"
           /\ RowsIn(ledger, s, "deleted") # {}
           /\ RowsIn(ledger, s, "active") = {}
           /\ \A i \in RowsIn(ledger, s, "deleted") :
                /\ \A t \in tunnels : t.id # ledger[i].tunnel_id
                /\ \A d \in dns : d.id # ledger[i].dns_record_id
           /\ resp'[w] # [status |-> 500, detail |-> "OperationalError"] )
         => /\ resp'[w].status = 200
            /\ Cardinality(RowsIn(ledger', s, "active")) = 1
            /\ \A i \in RowsIn(ledger, s, "deleted") : ledger'[i] = ledger[i]]_vars

\* request w commits the soft delete of row i in this step
DeleteCommits(w, i) ==
    /\ req[w].kind = "delete"
    /\ req[w].pc = "d_save" /\ req'[w].pc = "done"
    /\ req[w].row = i
    /\ resp'[w].status = 200

\* C9 (as claimed): no step removes a row, and a delete changes nothing of
\* the matched row but its status, which becomes deleted.
C9_OnlyStatusChanges ==
    [][/\ Len(ledger') >= Len(ledger)
       /\ \A i \in DOMAIN ledger :
            \/ ledger'[i] = ledger[i]
            \/ /\ \E w \in Workers : DeleteCommits(w, i)
               /\ ledger'[i] = [ledger[i] EXCEPT !.status = "deleted"]]_vars

\* C9 (amended): no step removes a row, and a delete changes nothing of the
\* matched row but its status, which becomes deleted, and its updated_at,
\* which becomes the time of the update.
C9_OnlyStatusAndUpdatedAt ==
    [][/\ Len(ledger') >= Len(ledger)
       /\ \A i \in DOMAIN ledger :
            \/ ledger'[i] = ledger[i]
            \/ /\ \E w \in Workers : DeleteCommits(w, i)
               /\ ledger'[i] = [ledger[i] EXCEPT !.status = "deleted",
                                                 !.updated_at = now']]_vars

\* C9 witness: a row was marked deleted at a later time than it was written,
\* beside a row that is still active.
C9_Witness ==
    \E i, j \in DOMAIN ledger :
        /\ ledger[i].status = "deleted"
        /\ ledger[i].updated_at > ledger[i].created_at
        /\ ledger[j].status = "active"

\* C10: the status of a row changes only from active to deleted, and only
\* in the commit of a delete request that found this row; a deleted row
\* never becomes active.
C10_StatusOnlyActiveToDeleted ==
    [][/\ Len(ledger') >= Len(ledger)
       /\ \A i \in DOMAIN ledger :
            ledger'[i].status # ledger[i].status =>
               /\ ledger[i].status = "active"
               /\ ledger'[i].status = "deleted"
               /\ \E w \in Workers : DeleteCommits(w, i)]_vars

\* C10 witness: a row is deleted, and a later create of the same name has
\* come to its write and returned.
C10_Witness ==
    \E i \in DOMAIN ledger, w \in Workers :
        /\ ledger[i].status = "deleted"
        /\ req[w].kind = "create" /\ req[w].pc = "done"
        /\ req[w].sub = ledger[i].subdomain
        /\ Len(log[w]) = 5
        /\ ledger[i].tunnel_id # req[w].tunnel_id

\* worker w takes a check of subdomain s as the request that follows the
\* one it has just answered
CheckFollows(w, s) ==
    /\ req[w].pc = "done"
    /\ req'[w].kind = "check"
    /\ req'[w].n = req[w].n + 1
    /\ req'[w].subdomain = s
    /\ ValidateApiKey(req'[w].key) = 0

\* worker w gets the answer of check_dns_record_exists and returns
CheckAnswers(w) ==
    /\ req[w].kind = "check"
    /\ req[w].pc = "k_exists" /\ req'[w].pc = "done"

FailedDeletions(w) ==
    {k \in DOMAIN log[w] :
        log[w][k].op \in {"delete_dns_record", "delete_tunnel"} /\ ~log[w][k].ok}

\* C12 (as claimed): a delete request in which delete_dns_record or
\* delete_tunnel failed reports success = false, its row being marked
\* deleted all the same.
C12_SuccessFalseOnFailedCleanup ==
    \A w \in Workers :
        ( /\ req[w].kind = "delete" /\ req[w].pc = "done"
          /\ resp[w].status = 200
          /\ FailedDeletions(w) # {} )
        => resp[w].success = FALSE

\* C13: a delete request that found an active row and has returned has
\* marked this row deleted and answered 200, whether delete_dns_record and
\* delete_tunnel succeeded or failed; the only other end of such a request
\* is the failure of its own commit.
C13_DeletedWhateverCleanup ==
    \A w \in Workers :
        ( /\ req[w].kind = "delete" /\ req[w].pc = "done"
          /\ req[w].row # 0
          /\ resp[w] # HttpError(500, "OperationalError") )
        => /\ resp[w].status = 200
           /\ ledger[req[w].row].status = "deleted"
           /\ ledger[req[w].row].subdomain = req[w].subdomain

\* C13 witness: both remote deletions of a delete request failed, and its
\* row is marked deleted.
C13_Witness ==
    \E w \in Workers :
        /\ req[w].kind = "delete" /\ req[w].pc = "done"
        /\ Ops(w) = << <<"delete_dns_record", FALSE>>, <<"delete_tunnel", FALSE>> >>
        /\ resp[w].status = 200
        /\ ledger[req[w].row].status = "deleted"

\* worker w receives a request of this kind in this step
Receives(w, kind) ==
    /\ arrived' = arrived + 1
    /\ req'[w].n = arrived'
    /\ req'[w].kind = kind

\* C14: a delete request for a subdomain that has no active row is
\* answered 404 at once: it makes no provider call, and the ledger and the
\* provider's resources are as they were.
C14_DeleteNotFound ==
    [][\A w \in Workers :
         ( /\ Receives(w, "delete")
           /\ ValidateApiKey(req'[w].key) = 0
           /\ ActiveOf(req'[w].subdomain) = {} )
         => /\ resp'[w] = HttpError(404, "not found")
            /\ req'[w].pc = "done"
            /\ log'[w] = << >>
            /\ UNCHANGED <<ledger, tunnels, dns, routes>>]_vars

\* C14 witness: a delete of a subdomain whose row was deleted before was
\* answered 404.
C14_Witness ==
    \E w \in Workers :
        /\ req[w].kind = "delete" /\ req[w].pc = "done"
        /\ resp[w].status = 404
        /\ DeletedOf(req[w].subdomain) # {}
        /\ log[w] = << >>

\* C15: a create request whose localPort is below 1 or above 65535 is
\* rejected in the step that receives it, as a validation error (422) when
\* its key is accepted and else for its key: it makes no provider call, and
\* the ledger and the provider's resources are as they were.
C15_PortOutOfRangeRejected ==
    [][\A w \in Workers :
         ( /\ Receives(w, "create")
           /\ (req'[w].localPort < 1 \/ req'[w].localPort > 65535) )
         => /\ resp'[w].status \in {401, 403, 422}
            /\ ValidateApiKey(req'[w].key) = 0 => resp'[w] = HttpError(422, "localPort")
            /\ req'[w].pc = "done"
            /\ log'[w] = << >>
            /\ UNCHANGED <<ledger, tunnels, dns, routes>>]_vars

\* C15 witness: a create with an accepted key and port 65536 was answered
\* 422 beside a row that an earlier create wrote.
C15_Witness ==
    \E w \in Workers :
        /\ req[w].kind = "create" /\ req[w].pc = "done"
        /\ req[w].localPort = MaxPort + 1
        /\ ValidateApiKey(req[w].key) = 0
        /\ resp[w].status = 422
        /\ log[w] = << >>
        /\ Len(ledger) = 1

\* the character of text t at position i, 0 past its end
At(t, i) == IF i \in 1..Len(t) THEN t[i] ELSE 0

\* the value of a character of the base64 alphabet
B64Value(c) ==
    IF c >= 65 /\ c <= 90 THEN c - 65
    ELSE IF c >= 97 /\ c <= 122 THEN c - 71
    ELSE IF c >= 48 /\ c <= 57 THEN c + 4
    ELSE IF c = 43 THEN 62 ELSE 63

\* base64 decoding: four characters to three bytes, less for "=" padding
RECURSIVE B64Decode(_)
B64Decode(t) ==
    IF Len(t) < 4 THEN << >>
    ELSE LET v1 == B64Value(t[1])
             v2 == B64Value(t[2])
             v3 == B64Value(t[3])
             v4 == B64Value(t[4])
             b1 == (v1 * 4) + (v2 \div 16)
             b2 == ((v2 % 16) * 16) + (v3 \div 4)
             b3 == ((v3 % 4) * 64) + v4
         IN  (IF t[3] = 61 THEN <<b1>>
              ELSE IF t[4] = 61 THEN <<b1, b2>>
              ELSE <<b1, b2, b3>>) \o B64Decode(SubSeq(t, 5, Len(t)))

\* JSON parsing of an object whose values are strings
IsWs(c) == c \in {32, 9, 10, 13}

RECURSIVE SkipWs(_, _)
SkipWs(t, i) == IF IsWs(At(t, i)) THEN SkipWs(t, i + 1) ELSE i

HexVal(c) ==
    IF c >= 48 /\ c <= 57 THEN c - 48
    ELSE IF c >= 97 /\ c <= 102 THEN c - 87
    ELSE c - 55

Hex4At(t, i) ==
    (HexVal(At(t, i)) * 4096) + (HexVal(At(t, i + 1)) * 256)
       + (HexVal(At(t, i + 2)) * 16) + HexVal(At(t, i + 3))

Unescape(e) ==
    CASE e = 98 -> 8
      [] e = 102 -> 12
      [] e = 110 -> 10
      [] e = 114 -> 13
      [] e = 116 -> 9
      [] OTHER -> e

\* the string whose first character is at i, the opening quote read
RECURSIVE ScanString(_, _, _)
ScanString(t, i, acc) ==
    IF i > Len(t) THEN [ok |-> FALSE, val |-> acc, next |-> i]
    ELSE IF t[i] = 34 THEN [ok |-> TRUE, val |-> acc, next |-> i + 1]
    ELSE IF t[i] # 92 THEN ScanString(t, i + 1, Append(acc, t[i]))
    ELSE IF At(t, i + 1) \notin {34, 92, 47, 98, 102, 110, 114, 116, 117}
         THEN [ok |-> FALSE, val |-> acc, next |-> i]
    ELSE IF At(t, i + 1) # 117
         THEN ScanString(t, i + 2, Append(acc, Unescape(t[i + 1])))
    ELSE LET hi == Hex4At(t, i + 2)
             lo == Hex4At(t, i + 8)
         IN  IF /\ hi >= 55296 /\ hi <= 56319
                /\ At(t, i + 6) = 92 /\ At(t, i + 7) = 117
                /\ lo >= 56320 /\ lo <= 57343
             THEN ScanString(t, i + 12,
                             Append(acc, 65536 + ((hi - 55296) * 1024) + (lo - 56320)))
             ELSE ScanString(t, i + 6, Append(acc, hi))

\* the members from position i on, as pairs of key and value
RECURSIVE ScanMembers(_, _, _)
ScanMembers(t, i, acc) ==
    LET k == SkipWs(t, i)
        key == ScanString(t, k + 1, << >>)
        c == SkipWs(t, key.next)
        v == SkipWs(t, c + 1)
        val == ScanString(t, v + 1, << >>)
        e == SkipWs(t, val.next)
        members == {m \in acc : m[1] # key.val} \cup {<<key.val, val.val>>}
    IN  IF At(t, k) # 34 \/ ~key.ok \/ At(t, c) # 58 THEN [ok |-> FALSE, members |-> acc]
        ELSE IF At(t, v) # 34 \/ ~val.ok THEN [ok |-> FALSE, members |-> acc]
        ELSE IF At(t, e) = 44 THEN ScanMembers(t, e + 1, members)
        ELSE [ok |-> At(t, e) = 125 /\ SkipWs(t, e + 1) = Len(t) + 1,
              members |-> members]

JsonLoads(t) ==
    IF At(t, SkipWs(t, 1)) # 123 THEN [ok |-> FALSE, members |-> {}]
    ELSE ScanMembers(t, SkipWs(t, 1) + 1, {})

\* what a reader of the token recovers: base64 decode, then JSON parse
DecodeToken(token) == JsonLoads(Utf8Decode(B64Decode(Utf8Encode(token))))

\* C16: for every tunnel id and every secret, the token that
\* get_tunnel_token returns decodes (base64, then JSON) to the object with
\* exactly the members a = the account id, t = the tunnel id and s = the
\* secret; and it is the value of one function of these three.
C16_TokenRoundTrip ==
    \A w \in Workers :
        (req[w].kind = "token" /\ req[w].pc = "done") =>
           /\ DecodeToken(req[w].tunnel_token) =
                 [ok |-> TRUE,
                  members |-> {<< <<97>>, AccountIdText >>,
                               << <<116>>, req[w].tunnel_id >>,
                               << <<115>>, req[w].tunnel_secret >>}]
           /\ req[w].tunnel_token =
                 EncodeToken([a |-> AccountIdText, t |-> req[w].tunnel_id,
                              s |-> req[w].tunnel_secret])

\* C16 witness: a token was issued for a tunnel id that is a quote and a
\* secret that is a character outside the basic plane.
C16_Witness ==
    \E w \in Workers :
        /\ req[w].kind = "token" /\ req[w].pc = "done"
        /\ req[w].tunnel_id = <<34>>
        /\ req[w].tunnel_secret = <<128512>>
        /\ Len(req[w].tunnel_token) > 0

\* what check_dns_record_exists returned to request w, its last call
Reported(w) == log'[w][Len(log'[w])].ok

\* C17: a check of subdomain s answers available = false exactly when the
\* ledger has an active row of s, or else the provider reported a DNS
\* record of s; it answers available = true otherwise.  Rows of s that are
\* deleted do not count, and the provider reports a record only if it has
\* one.
C17_AvailableIffFree ==
    [][\A w \in Workers :
         /\ (Receives(w, "check") /\ ValidateApiKey(req'[w].key) = 0)
            => IF ActiveOf(req'[w].subdomain) # {}
               THEN /\ req'[w].pc = "done"
                    /\ resp'[w].status = 200
                    /\ resp'[w].subdomain = req'[w].subdomain
                    /\ resp'[w].available = FALSE
               ELSE /\ req'[w].pc = "k_exists"
                    /\ resp'[w] = NoResp
         /\ CheckAnswers(w)
            => /\ resp'[w].status = 200
               /\ resp'[w].subdomain = req[w].subdomain
               /\ resp'[w].available = ~Reported(w)
               /\ Reported(w) => DnsNamed(req[w].subdomain)]_vars

\* C17 witness: the row of a subdomain is deleted, its DNS record is still
\* at the provider, and a check of it was answered not available.
C17_Witness ==
    \E w \in Workers :
        /\ req[w].kind = "check" /\ req[w].pc = "done"
        /\ DeletedOf(req[w].sub) # {} /\ ActiveOf(req[w].sub) = {}
        /\ DnsNamed(req[w].sub)
        /\ resp[w].status = 200 /\ resp[w].available = FALSE

\* C18: no step of a check request changes the ledger, the tunnels, the
\* DNS records or the tunnel configurations, whatever the requests of the
\* other workers are doing.
C18_CheckReadOnly ==
    [][\A w \in Workers :
         (Receives(w, "check") \/ CheckAnswers(w))
         => UNCHANGED <<ledger, tunnels, dns, routes>>]_vars

\* C18 witness: a check found a DNS record without a ledger row and was
\* answered while the create or delete of another worker was in flight.
C18_Witness ==
    \E v, w \in Workers :
        /\ req[w].kind = "check" /\ req[w].pc = "done"
        /\ resp[w].status = 200 /\ resp[w].available = FALSE
        /\ Len(log[w]) = 1
        /\ DnsNamed(req[w].sub)
        /\ Busy(v) /\ req[v].kind \in {"create", "delete"}

\* C19: check_dns_record_exists returns false when its query fails; a
\* check that reaches the provider is answered 200 with its subdomain and
\* the flag of a query that succeeded or of one that failed; and a create
\* whose existence query returned false goes on to create_tunnel.
C19_ExistenceCheckAdvisory ==
    [][/\ \A s \in Subdomains : CheckDnsRecordExists(s, FALSE) = FALSE
       /\ \A w \in Workers :
            /\ CheckAnswers(w)
               => /\ resp'[w].status = 200
                  /\ resp'[w].subdomain = req[w].subdomain
                  /\ resp'[w].available \in
                        {~CheckDnsRecordExists(req[w].sub, ok) : ok \in BOOLEAN}
            /\ ( /\ req[w].kind = "create"
                 /\ req[w].pc = "c_exists" /\ req'[w].pc # "c_exists"
                 /\ ~Reported(w) )
               => req'[w].pc = "c_tunnel" /\ resp'[w] = NoResp]_vars

\* C19 witness: the provider has a DNS record of a subdomain; a check of
\* it was answered available and a create of it has gone on to
\* create_tunnel, the existence query of both having failed.
C19_Witness ==
    \E v, w \in Workers :
        /\ req[w].kind = "check" /\ req[w].pc = "done"
        /\ DnsNamed(req[w].sub)
        /\ resp[w].status = 200 /\ resp[w].available = TRUE
        /\ req[v].kind = "create" /\ req[v].pc = "c_tunnel"
        /\ req[v].sub = req[w].sub
        /\ Ops(v) = << <<"check_dns_record_exists", FALSE>> >>

\* worker w receives a request in this step
ReceivesAny(w) == arrived' = arrived + 1 /\ req'[w].n = arrived'

\* C20: a request of any of the five operations without a key is answered
\* 401 and one with a key that is not in the configured list 403, in the
\* step that receives it: it makes no provider call, its answer does not
\* depend on the ledger or the provider, and both are as they were.
C20_KeyRequired ==
    [][\A w \in Workers :
         (ReceivesAny(w) /\ req'[w].key \notin ApiKeysList)
         => /\ req'[w].kind \in {"create", "check", "delete", "list", "get"}
            /\ resp'[w] = HttpError(IF req'[w].key = NONE THEN 401 ELSE 403, "api key")
            /\ req'[w].pc = "done"
            /\ log'[w] = << >>
            /\ UNCHANGED <<ledger, tunnels, dns, routes>>]_vars

\* C20 witness: a get of a subdomain that has a row was answered 403 for
\* a key that is not in the list.
C20_Witness ==
    \E w \in Workers :
        /\ req[w].kind = "get" /\ req[w].pc = "done"
        /\ req[w].key = "invalid-key"
        /\ RowsOf(ledger, req[w].subdomain) # {}
        /\ resp[w].status = 403

\* the answer is a list of summaries of distinct rows, newest first, and
\* Keeps(status) holds of every one
ListsNewestFirst(r, Keeps(_)) ==
    /\ r.status = 200 /\ r.success = TRUE
    /\ \A k \in DOMAIN r.subdomains :
         /\ \E i \in DOMAIN ledger :
              r.subdomains[k] =
                 [subdomain |-> ledger[i].subdomain, publicUrl |-> ledger[i].public_url,
                  tunnelId |-> ledger[i].tunnel_id, createdAt |-> ledger[i].created_at,
                  status |-> ledger[i].status]
         /\ Keeps(r.subdomains[k].status)
    /\ \A j, k \in DOMAIN r.subdomains :
         j < k => /\ r.subdomains[j].createdAt >= r.subdomains[k].createdAt
                  /\ r.subdomains[j].subdomain # r.subdomains[k].subdomain

\* worker w receives a list request with an accepted key in this step
ReceivesList(w) == Receives(w, "list") /\ ValidateApiKey(req'[w].key) = 0

\* C21 (as claimed): a list request succeeds and returns at most limit
\* summaries, newest first, of rows whose status is the filter (active when
\* none is sent), or of rows of any status when the filter is "all"; it
\* changes no state.  Taken for limits of 0 or more, so that a violation
\* shows more than a list that is longer than a negative limit.
C21_ListFiltered ==
    [][\A w \in Workers :
         (ReceivesList(w) /\ req'[w].localPort >= 0) =>
            LET f == IF req'[w].subdomain = NONE THEN "active" ELSE req'[w].subdomain
                Keeps(st) == f # "all" => st = f
            IN  /\ ListsNewestFirst(resp'[w], Keeps)
                /\ Len(resp'[w].subdomains) <= req'[w].localPort
                /\ UNCHANGED <<ledger, tunnels, dns, routes>>]_vars

\* C21 (amended): the same for a limit of 0 or more, rows of any status
\* being returned also when the filter is empty; with a negative limit the
\* request returns all these rows or fails with 500.
C21_ListFilteredOrEmpty ==
    [][\A w \in Workers :
         ReceivesList(w) =>
            LET f == IF req'[w].subdomain = NONE THEN "active" ELSE req'[w].subdomain
                Keeps(st) == f \notin {"all", ""} => st = f
            IN  /\ \/ /\ ListsNewestFirst(resp'[w], Keeps)
                      /\ req'[w].localPort >= 0
                         => Len(resp'[w].subdomains) <= req'[w].localPort
                   \/ /\ req'[w].localPort < 0
                      /\ resp'[w].status = 500
                /\ UNCHANGED <<ledger, tunnels, dns, routes>>]_vars

\* C21 witness: a list with the empty filter returned the row of a deleted
\* subdomain.
C21_Witness ==
    \E w \in Workers :
        /\ req[w].kind = "list" /\ req[w].pc = "done"
        /\ req[w].subdomain = ""
        /\ resp[w].status = 200
        /\ Len(resp[w].subdomains) = 1
        /\ resp[w].subdomains[1].status = "deleted"

\* the columns of row t that to_dict returns, under the names it gives them
Shown(t) ==
    [id |-> t.id, subdomain |-> t.subdomain, tunnelId |-> t.tunnel_id,
     tunnelName |-> t.tunnel_name, dnsRecordId |-> t.dns_record_id,
     publicUrl |-> t.public_url, localPort |-> t.local_port,
     description |-> t.description, status |-> t.status,
     createdAt |-> t.created_at, updatedAt |-> t.updated_at]

\* every column of row t
AllColumns(t) ==
    [id |-> t.id, subdomain |-> t.subdomain, tunnelId |-> t.tunnel_id,
     tunnelName |-> t.tunnel_name, tunnelSecret |-> t.tunnel_secret,
     dnsRecordId |-> t.dns_record_id,
     publicUrl |-> t.public_url, localPort |-> t.local_port,
     description |-> t.description, status |-> t.status,
     createdAt |-> t.created_at, updatedAt |-> t.updated_at]

\* worker w receives a get request with an accepted key in this step and
\* answers it: 404 when no row has the subdomain, whatever the status, and
\* else 200 with Fields of the one row that has it
GetAnswers(w, Fields(_)) ==
    (Receives(w, "get") /\ ValidateApiKey(req'[w].key) = 0) =>
        LET rows == {i \in DOMAIN ledger : ledger[i].subdomain = req'[w].subdomain}
        IN  /\ req'[w].pc = "done"
            /\ rows = {} => resp'[w].status = 404
            /\ \A i \in rows :
                 /\ resp'[w].status = 200
                 /\ resp'[w].success = TRUE
                 /\ resp'[w].subdomain = Fields(ledger[i])
            /\ UNCHANGED <<ledger, tunnels, dns, routes>>

\* C22 (as claimed): get answers 404 exactly when no row has the subdomain
\* in any status, and else returns every field of the row, a deleted row
\* included.
C22_GetFullRecord == [][\A w \in Workers : GetAnswers(w, AllColumns)]_vars

\* C22 (amended): get answers 404 exactly when no row has the subdomain in
\* any status, and else returns every field of the row but the tunnel
\* secret, a deleted row included.
C22_GetRecordWithoutSecret == [][\A w \in Workers : GetAnswers(w, Shown)]_vars

\* C22 witness: a get of a deleted subdomain returned its row, status
\* deleted, without the secret the row holds.
C22_Witness ==
    \E w \in Workers, i \in DOMAIN ledger :
        /\ req[w].kind = "get" /\ req[w].pc = "done"
        /\ ledger[i].subdomain = req[w].subdomain
        /\ ledger[i].status = "deleted"
        /\ ledger[i].tunnel_secret \in Secrets
        /\ resp[w].status = 200
        /\ resp[w].subdomain.status = "deleted"
        /\ "tunnelSecret" \notin DOMAIN resp[w].subdomain

\* the create of worker w has returned the failure of its db.commit, every
\* provider step before it having succeeded
CommitFailed(w) ==
    /\ req[w].kind = "create" /\ req[w].pc = "done"
    /\ Len(log[w]) = 5 /\ log[w][5].op = "get_tunnel_token"
    /\ \A k \in 2..5 : log[w][k].ok
    /\ RowsWrittenBy(req[w].n) = {}

\* C23 (as claimed): a create whose ledger write failed after every provider
\* step succeeded has attempted delete_tunnel for the tunnel it created, and
\* reports the failure of the write.
C23_CommitFailureCompensated ==
    \A w \in Workers :
        CommitFailed(w) =>
            /\ \E k \in DOMAIN log[w] :
                 /\ log[w][k].op = "delete_tunnel"
                 /\ log[w][k].arg = req[w].tunnel_id
            /\ resp[w] \in {HttpError(500, "OperationalError"),
                            HttpError(500, "IntegrityError")}

\* the subdomain the request of worker w is on after the step, NONE while
\* a create without a supplied subdomain has not generated one
OnSubdomain(w) == IF req'[w].sub # NONE THEN req'[w].sub ELSE req'[w].subdomain

\* worker w takes the step
StepOf(w) == req'[w] # req[w]

\* the step leaves alone what belongs to subdomains other than s: their
\* rows, DNS records, tunnels and routes, and the requests of other workers
LeavesOthers(w, s) ==
    /\ \A i \in DOMAIN ledger : ledger[i].subdomain # s => ledger'[i] = ledger[i]
    /\ Len(ledger') >= Len(ledger)
    /\ \A i \in DOMAIN ledger' : i > Len(ledger) => ledger'[i].subdomain = s
    /\ {d \in dns' : d.name # FullHostname(s)} = {d \in dns : d.name # FullHostname(s)}
    /\ {t \in tunnels' : t.name # s} = {t \in tunnels : t.name # s}
    /\ {c \in routes' : c.ingress[1].hostname # FullHostname(s)}
         = {c \in routes : c.ingress[1].hostname # FullHostname(s)}
    /\ \A v \in Workers \ {w} :
         req'[v] = req[v] /\ resp'[v] = resp[v] /\ log'[v] = log[v]

\* what the step answers follows from what belongs to subdomain s alone:
\* the rows of s, and the DNS record and the tunnel of s at the provider
ReadsOwn(w, s) ==
    /\ (Receives(w, "create") /\ ValidateApiKey(req'[w].key) = 0
            /\ PortOk(req'[w].localPort)) =>
          (resp'[w].status = 409 <=> (Truthy(s) /\ ActiveOf(s) # {}))
    /\ (Receives(w, "delete") /\ ValidateApiKey(req'[w].key) = 0) =>
          (resp'[w].status = 404 <=> ActiveOf(s) = {})
    /\ (req[w].pc = "c_exists" /\ Reported(w)) => DnsNamed(s)
    /\ req[w].pc = "c_save" =>
          /\ resp'[w].status = 200 =>
                {i \in DOMAIN ledger : ledger[i].subdomain = s} = {}
          /\ resp'[w] = HttpError(500, "IntegrityError") =>
                {i \in DOMAIN ledger : ledger[i].subdomain = s} # {}
    /\ (req[w].pc \in {"c_rollback", "d_tunnel"} /\ Reported(w)) =>
          \E t \in tunnels : t.id = req[w].tunnel_id /\ t.name = s
    /\ (req[w].pc = "d_dns" /\ Reported(w)) =>
          \E d \in dns : d.id = req[w].dns_record_id /\ d.name = FullHostname(s)

\* C24: a request on one subdomain and a request on another do not affect
\* each other: every step of a request on subdomain s answers from the rows
\* and provider resources of s alone and changes only those, so that the
\* outcome of the request and the record and resources of s are the same
\* however the steps of requests on other subdomains fall between its own.
\* The row id, which is not a field of the record in the data model,
\* counts the rows of all subdomains.
C24_DifferentSubdomainsIndependent ==
    [][\A w \in Workers :
          StepOf(w) => LeavesOthers(w, OnSubdomain(w)) /\ ReadsOwn(w, OnSubdomain(w))]_vars

\* C24 witness: two creates on different subdomains ran interleaved and both
\* succeeded: the request that arrived second wrote its row first.
C24_Witness ==
    \E v, w \in Workers, i, j \in DOMAIN ledger :
        /\ req[v].kind = "create" /\ req[w].kind = "create"
        /\ req[v].pc = "done" /\ req[w].pc = "done"
        /\ resp[v].status = 200 /\ resp[w].status = 200
        /\ req[v].sub # req[w].sub
        /\ req[v].n < req[w].n
        /\ i \in RowsWrittenBy(req[v].n) /\ j \in RowsWrittenBy(req[w].n)
        /\ j < i

\* the create of worker w has returned after its create_tunnel succeeded
CreateReturned(w) ==
    /\ req[w].kind = "create" /\ req[w].pc = "done"
    /\ Len(log[w]) >= 2 /\ log[w][2].op = "create_tunnel" /\ log[w][2].ok

\* the create of worker w ended in full success: every step succeeded and
\* its row is written
FullSuccess(w) ==
    /\ resp[w].status = 200
    /\ Len(log[w]) = 5 /\ \A k \in 2..5 : log[w][k].ok
    /\ RowsWrittenBy(req[w].n) # {}

\* the create of worker w ended in full rollback: no tunnel, DNS record or
\* route it created is left at the provider, and it has written no row
FullRollback(w) ==
    /\ resp[w].status = 500
    /\ ~\E t \in tunnels : t.id = TunnelIdOf(req[w].n)
    /\ ~\E d \in dns : d.id = DnsIdOf(req[w].n)
    /\ ~\E c \in routes : c.tunnel_id = TunnelIdOf(req[w].n)
    /\ RowsWrittenBy(req[w].n) = {}

\* C25 (as claimed): a create that passed the availability checks and has
\* returned ended in full success or in full rollback.  Taken for the
\* requests whose compensating delete_tunnel was called and succeeded, so
\* that a violation shows more than a compensation that failed.
C25_FullSuccessOrFullRollback ==
    \A w \in Workers :
        (/\ CreateReturned(w)
         /\ \/ FullSuccess(w)
            \/ \E k \in DOMAIN log[w] : log[w][k].op = "delete_tunnel" /\ log[w][k].ok)
        => (FullSuccess(w) \/ FullRollback(w))

\* the lowercase letters and the digits
LowerAlnum == (97..122) \cup (48..57)

\* C26: a call of the generator returns its prefix, a hyphen, and exactly 8
\* characters, each a lowercase letter or a digit, and leaves the ledger and
\* the provider as they were.  It does not guarantee uniqueness: the
\* witness is two calls that returned the same name.
C26_GeneratedNameFormat ==
    [][\A w \in Workers :
          (req[w].pc = "g_name" /\ req'[w].pc = "done") =>
              LET prefix == req[w].subdomain
                  name == req'[w].sub
              IN  /\ Len(name) = Len(prefix) + 9
                  /\ SubSeq(name, 1, Len(prefix)) = prefix
                  /\ name[Len(prefix) + 1] = 45
                  /\ \A k \in (Len(prefix) + 2)..Len(name) : name[k] \in LowerAlnum
                  /\ UNCHANGED <<ledger, tunnels, dns, routes>>]_vars

\* C26 witness: two calls with the same prefix have returned the same
\* name, which has a letter and a digit in its suffix.
C26_Witness ==
    /\ \A w \in Workers : req[w].kind = "generate" /\ req[w].pc = "done"
    /\ req[1].sub = req[2].sub
    /\ \E j, k \in DOMAIN req[1].sub :
         /\ j > Len(req[1].subdomain) + 1 /\ k > Len(req[1].subdomain) + 1
         /\ req[1].sub[j] = 97 /\ req[1].sub[k] = 57

\* the provider steps of a create in the order of the code, after the
\* existence check
CreateSteps ==
    <<"check_dns_record_exists", "create_tunnel", "create_dns_record",
      "configure_tunnel_route", "get_tunnel_token">>

\* the k-th call of worker w returned successfully: the existence check
\* found nothing, any other call did not raise
StepPassed(w, k) == IF k = 1 THEN ~log[w][k].ok ELSE log[w][k].ok

\* the calls of the create of worker w so far are the steps in order, each
\* made after the one before it passed, with the compensating
\* delete_tunnel as the only call after a step that failed
InStepOrder(w) ==
    \A k \in DOMAIN log[w] :
        \/ /\ k <= Len(CreateSteps)
           /\ log[w][k].op = CreateSteps[k]
           /\ \A j \in 1..(k - 1) : StepPassed(w, j)
        \/ /\ k = Len(log[w]) /\ k \in {4, 5}
           /\ log[w][k].op = "delete_tunnel"
           /\ ~StepPassed(w, k - 1)
           /\ \A j \in 1..(k - 2) : StepPassed(w, j)

\* the DNS and route steps of worker w are called with the id of the tunnel
\* its create_tunnel made, and what they made points to that tunnel
UsesOwnTunnel(w) ==
    /\ \A k \in DOMAIN log[w] :
         log[w][k].op \in {"create_dns_record", "configure_tunnel_route",
                           "get_tunnel_token"}
         => /\ log[w][k].arg = TunnelIdOf(req[w].n)
            /\ log[w][k].arg = req[w].tunnel_id
    /\ \A d \in dns : d.id = DnsIdOf(req[w].n) =>
         d.content = TunnelTarget(TunnelIdOf(req[w].n))
    /\ \A t \in tunnels : t.id = TunnelIdOf(req[w].n) => t.name = req[w].sub

\* C27: in a create the steps run in the order create_tunnel,
\* create_dns_record, configure_tunnel_route, get_tunnel_token, ledger
\* write, each only after the one before it returned successfully; the DNS
\* and route steps use the tunnel id create_tunnel returned; the row is
\* written only when all four calls have succeeded, and nothing is called
\* after it.
C27_StepsInOrder ==
    \A w \in Workers :
        req[w].kind = "create" =>
            /\ InStepOrder(w)
            /\ UsesOwnTunnel(w)
            /\ RowsWrittenBy(req[w].n) # {} =>
                 /\ req[w].pc = "done"
                 /\ Len(log[w]) = Len(CreateSteps)
                 /\ \A k \in DOMAIN log[w] : StepPassed(w, k)
            /\ req[w].pc = "c_save" =>
                 /\ Len(log[w]) = Len(CreateSteps)
                 /\ \A k \in DOMAIN log[w] : StepPassed(w, k)
                 /\ RowsWrittenBy(req[w].n) = {}

\* C27 witness: a create has made its five calls, the DNS record and the
\* route at the provider point to its tunnel, and its row is written.
C27_Witness ==
    \E w \in Workers :
        /\ req[w].kind = "create" /\ req[w].pc = "done"
        /\ Len(log[w]) = 5
        /\ RowsWrittenBy(req[w].n) # {}
        /\ \E d \in dns : d.content = TunnelTarget(req[w].tunnel_id)
        /\ \E c \in routes : c.tunnel_id = req[w].tunnel_id

\* the remote deletions a delete makes for a row, in the order of
\* cleanup_subdomain: delete_dns_record when the row has a DNS record id,
\* then delete_tunnel
CleanupSteps(dns_record_id) ==
    IF Truthy(dns_record_id) THEN <<"delete_dns_record", "delete_tunnel">>
    ELSE <<"delete_tunnel">>

\* the operations worker w has called, in order
Attempted(w) == [k \in DOMAIN log[w] |-> log[w][k].op]

\* C28: a delete that found an active row attempts delete_dns_record, if
\* the row has a DNS record id, and then delete_tunnel, the second whether
\* or not the first failed; it marks the row deleted only in its last step,
\* when both attempts have returned.
C28_CleanupOrder ==
    [][\A w \in Workers :
          (req[w].kind = "delete" /\ req[w].row # 0) =>
              LET steps == CleanupSteps(req[w].dns_record_id) IN
              /\ req[w].pc = "d_dns" =>
                    /\ Attempted(w) = << >>
                    /\ req'[w].pc \in {"d_dns", "d_tunnel"}
              /\ req[w].pc = "d_tunnel" =>
                    /\ Attempted(w) = SubSeq(steps, 1, Len(steps) - 1)
                    /\ req'[w].pc \in {"d_tunnel", "d_save"}
              /\ req[w].pc \in {"d_save", "done"} => Attempted(w) = steps
              /\ (req'[w] # req[w] /\ ledger' # ledger) =>
                    /\ req[w].pc = "d_save"
                    /\ Attempted(w) = steps
                    /\ log' = log]_vars

\* C28 witness: a delete whose delete_dns_record failed went on to
\* delete_tunnel, which succeeded, and then marked its row deleted.
C28_Witness ==
    \E w \in Workers :
        /\ req[w].kind = "delete" /\ req[w].pc = "done"
        /\ Ops(w) = << <<"delete_dns_record", FALSE>>, <<"delete_tunnel", TRUE>> >>
        /\ resp[w].status = 200
        /\ ledger[req[w].row].status = "deleted"

CreateTunnelFailed(w) ==
    /\ req[w].kind = "create"
    /\ Len(log[w]) >= 2
    /\ log[w][2] = Call("create_tunnel", req[w].sub, FALSE)

\* C30: a create whose create_tunnel failed calls nothing after it, no
\* delete_tunnel either, writes no row, has made nothing at the provider,
\* and reports the failure of create_tunnel.
C30_CreateTunnelFailureEndsRequest ==
    \A w \in Workers :
        CreateTunnelFailed(w) =>
            /\ Len(log[w]) = 2
            /\ req[w].pc = "done"
            /\ resp[w] = HttpError(500, "create_tunnel")
            /\ RowsWrittenBy(req[w].n) = {}
            /\ ~\E t \in tunnels : t.id = TunnelIdOf(req[w].n)
            /\ ~\E d \in dns : d.id = DnsIdOf(req[w].n)
            /\ ~\E c \in routes : c.tunnel_id = TunnelIdOf(req[w].n)

\* C30 witness: a create has returned the failure of its create_tunnel, the
\* second and last of its calls.
C30_Witness ==
    \E w \in Workers :
        /\ CreateTunnelFailed(w)
        /\ req[w].pc = "done"
        /\ Ops(w) = << <<"check_dns_record_exists", FALSE>>, <<"create_tunnel", FALSE>> >>
        /\ resp[w].status = 500

\* the configure_tunnel_route of the create of worker w failed, its
\* create_dns_record having succeeded, and the request has returned
RouteFailed(w) ==
    /\ req[w].kind = "create" /\ req[w].pc = "done"
    /\ Len(log[w]) >= 4
    /\ log[w][3] = Call("create_dns_record", req[w].tunnel_id, TRUE)
    /\ log[w][4] = Call("configure_tunnel_route", req[w].tunnel_id, FALSE)

\* C31: a create whose configure_tunnel_route failed after its
\* create_dns_record succeeded has, when it returns its error, made exactly
\* one delete_tunnel call and no delete_dns_record call, and the DNS record
\* it created is still at the provider.
C31_RollbackLeavesDnsRecord ==
    \A w \in Workers :
        RouteFailed(w) =>
            /\ Cardinality({k \in DOMAIN log[w] : log[w][k].op = "delete_tunnel"}) = 1
            /\ \A k \in DOMAIN log[w] : log[w][k].op # "delete_dns_record"
            /\ \E d \in dns :
                 /\ d.id = req[w].dns_record_id
                 /\ d.name = FullHostname(req[w].sub)
            /\ resp[w] = HttpError(500, "configure_tunnel_route")

\* C31 witness: a create has returned the failure of its route step; its
\* tunnel was deleted by the compensation and its DNS record is still
\* there.
C31_Witness ==
    \E w \in Workers :
        /\ RouteFailed(w)
        /\ log[w][5] = Call("delete_tunnel", req[w].tunnel_id, TRUE)
        /\ ~\E t \in tunnels : t.id = req[w].tunnel_id
        /\ \E d \in dns : d.id = req[w].dns_record_id

\* the response of worker w carries an indicator of partial success: a
\* success flag that is false
PartialSuccessShown(w) == "success" \in DOMAIN resp[w] /\ resp[w].success = FALSE

\* C32 (as claimed): every failure of a compensating or cleanup call, the
\* delete_tunnel of a create's rollback or the delete_dns_record or
\* delete_tunnel of a delete, is logged and shown to the caller by a
\* partial-success indicator when the request returns.
C32_CleanupFailureSurfaced ==
    \A w \in Workers :
        (req[w].pc = "done" /\ FailedDeletions(w) # {}) =>
            /\ Len(req[w].printed) = Cardinality(FailedDeletions(w))
            /\ PartialSuccessShown(w)

\* the rule that answers 404 for anything else
CatchAll == [service |-> "http_status:404"]

\* C33: the configuration configure_tunnel_route puts for a request has
\* exactly two ingress rules: first the hostname of the request routed to
\* http://localhost:<localPort> with TLS verification of the origin off,
\* last the catch-all rule answering 404; in every configuration at the
\* provider the catch-all rule is there and is the last rule.
C33_IngressRules ==
    [][/\ \A w \in Workers :
            (req[w].pc = "c_route" /\ req'[w].pc = "c_save") =>
                \E c \in routes' :
                    /\ c.tunnel_id = req[w].tunnel_id
                    /\ \A o \in routes' : o.tunnel_id = c.tunnel_id => o = c
                    /\ Len(c.ingress) = 2
                    /\ c.ingress[1] =
                         [hostname |-> req[w].sub \o "." \o ParentDomain,
                          service |-> "http://localhost:" \o ToString(req[w].localPort),
                          noTLSVerify |-> TRUE]
                    /\ c.ingress[2] = CatchAll
       /\ \A c \in routes' :
            /\ c.ingress[Len(c.ingress)] = CatchAll
            /\ \A k \in 1..(Len(c.ingress) - 1) : c.ingress[k] # CatchAll]_vars

\* C33 witness: the provider holds the configuration of a create for port
\* 8080: the rule for its hostname, then the catch-all rule.
C33_Witness ==
    \E w \in Workers, c \in routes :
        /\ req[w].kind = "create" /\ req[w].pc = "c_save"
        /\ c.tunnel_id = req[w].tunnel_id
        /\ c.ingress[1].hostname = FullHostname(req[w].sub)
        /\ c.ingress[1].service = "http://localhost:8080"
        /\ c.ingress[2] = CatchAll

\* C34 (as claimed): after a create for subdomain s has returned an error,
\* with no active row of s in the ledger, a later check of s answers
\* available = true: the check that follows the create finds no active row,
\* goes on to the provider, and the provider holds no DNS record of s, the
\* one thing that would make it answer not available.  Taken for a create
\* that failed at its route step and whose compensating delete_tunnel
\* succeeded, with requests served one after another.
C34_FailedCreateLeavesNameFree ==
    [][\A w \in Workers :
          (/\ RouteFailed(w)
           /\ log[w][5] = Call("delete_tunnel", req[w].tunnel_id, TRUE)
           /\ resp[w].status = 500
           /\ ActiveOf(req[w].sub) = {}
           /\ CheckFollows(w, req[w].sub))
          => /\ req'[w].pc = "k_exists"
             /\ ~DnsNamed(req[w].sub)]_vars

\* row i is active and tracks the tunnel with this id
TracksTunnel(i, id) == ledger[i].status = "active" /\ ledger[i].tunnel_id = id

\* row i is active and tracks the DNS record with this id
TracksDns(i, id) == ledger[i].status = "active" /\ ledger[i].dns_record_id = id

\* the calls of every request received so far are still on record
AllOnRecord == \A n \in 1..arrived : \E w \in Workers : req[w].n = n

\* C35 (as claimed): when no request is in flight and no compensating or
\* cleanup call has failed, every tunnel and every DNS record at the
\* provider belongs to an active row.  Taken for the states in which the
\* calls of every request so far are on record, so that no failed call is
\* out of sight.
C35_NoUntrackedResource ==
    (/\ \A w \in Workers : ~Busy(w)
     /\ AllOnRecord
     /\ \A w \in Workers : FailedDeletions(w) = {})
    => /\ \A t \in tunnels : \E i \in DOMAIN ledger : TracksTunnel(i, t.id)
       /\ \A d \in dns : \E i \in DOMAIN ledger : TracksDns(i, d.id)

\* worker w serves a delete that found an active row
FoundRow(w) == req[w].kind = "delete" /\ req[w].row # 0

\* C36 (as claimed): of the delete requests for one subdomain that are
\* served concurrently, at most one finds the active row and calls the
\* provider for it: no two deletes have found the same row and both
\* returned success for it.
C36_OneDeleteFindsRow ==
    \A v, w \in Workers :
        (/\ v # w
         /\ FoundRow(v) /\ FoundRow(w)
         /\ resp[v].status = 200 /\ resp[w].status = 200)
        => req[v].row # req[w].row

\* C37: a delete answers success = true only when the row it found has
\* status deleted; when its commit fails it answers 500 and leaves the
\* ledger as it was, the row still active unless another request deleted
\* it, with the remote deletions already attempted.
C37_SuccessOnlyWhenMarked ==
    [][\A w \in Workers :
          /\ (FoundRow(w) /\ req'[w] = req[w] /\ resp[w].status = 200) =>
                ledger'[req[w].row].status = "deleted"
          /\ (FoundRow(w) /\ req[w].pc = "d_save" /\ req'[w].pc = "done") =>
                /\ Attempted(w) = CleanupSteps(req[w].dns_record_id)
                /\ IF resp'[w].status = 200
                   THEN /\ resp'[w].success = TRUE
                        /\ ledger'[req[w].row].status = "deleted"
                   ELSE /\ resp'[w] = HttpError(500, "OperationalError")
                        /\ ledger' = ledger]_vars

\* C37 witness: the commit of a delete failed after both remote deletions
\* succeeded: the request was answered 500, its row is active, and the DNS
\* record and the tunnel of the row are gone.
C37_Witness ==
    \E w \in Workers :
        /\ FoundRow(w) /\ req[w].pc = "done"
        /\ resp[w].status = 500
        /\ ledger[req[w].row].status = "active"
        /\ Ops(w) = << <<"delete_dns_record", TRUE>>, <<"delete_tunnel", TRUE>> >>
        /\ ~\E t \in tunnels : t.id = req[w].tunnel_id
        /\ ~\E d \in dns : d.id = req[w].dns_record_id

\* the ledger with the tunnel secret of every row replaced: a ledger that
\* differs from it in the secrets only
OtherSecrets(L) == [i \in DOMAIN L |-> [L[i] EXCEPT !.tunnel_secret = NONE]]

\* the names a response gives to a tunnel secret or a tunnel token
SecretFields == {"tunnelSecret", "tunnel_secret", "tunnelToken", "tunnel_token"}

\* the response r of a request of this kind has no field for a secret or a
\* token, in itself, in the record a get returns, or in an item of a list
NoSecretField(kind, r) ==
    /\ DOMAIN r \cap SecretFields = {}
    /\ (kind = "get" /\ r.status = 200) => DOMAIN r.subdomain \cap SecretFields = {}
    /\ (kind = "list" /\ r.status = 200) =>
          \A k \in DOMAIN r.subdomains : DOMAIN r.subdomains[k] \cap SecretFields = {}

\* the answers a get, list, check or delete of these inputs gives in the
\* step that receives it, over ledger L
AnswersOver(L, q) ==
    IF ValidateApiKey(q.key) # 0 THEN {HttpError(ValidateApiKey(q.key), "api key")}
    ELSE IF q.kind = "get"
    THEN {IF RowsOf(L, q.subdomain) = {} THEN HttpError(404, "not found")
          ELSE [status |-> 200, success |-> TRUE,
                subdomain |-> ToDict(L[First(RowsOf(L, q.subdomain))])]}
    ELSE IF q.kind = "list"
    THEN {ListResponse(L, Limit(o, q.localPort)) :
             o \in OrderedDesc(L, Filtered(L, StatusFilterOf(q.subdomain)))}
         \cup (IF q.localPort < 0 THEN {HttpError(500, "list")} ELSE {})
    ELSE IF q.kind = "check"
    THEN {IF ActiveRows(L, q.subdomain) # {}
          THEN CheckResponse(q.subdomain, FALSE, "already taken") ELSE NoResp}
    ELSE {IF ActiveRows(L, q.subdomain) = {}
          THEN HttpError(404, "not found") ELSE NoResp}

\* the kinds of request other than create
ReadOrDelete == {"get", "list", "check", "delete"}

\* C38: no response of a get, list, check or delete has a field for a
\* tunnel secret or a tunnel token, and each is an answer the operation
\* gives over a ledger that differs in the tunnel secrets only; a create
\* that succeeds returns the token of the tunnel it made.
C38_SecretNotInResponses ==
    [][\A w \in Workers :
          /\ req'[w].kind \in ReadOrDelete => NoSecretField(req'[w].kind, resp'[w])
          /\ (ReceivesAny(w) /\ req'[w].kind \in ReadOrDelete) =>
                resp'[w] \in AnswersOver(OtherSecrets(ledger), req'[w])
          /\ (req[w].kind \in {"check", "delete"} /\ req'[w].pc = "done"
                 /\ req[w].pc \notin {"idle", "done"}) =>
                resp'[w] \in {CheckResponse(req[w].sub, ~Reported(w),
                                            IF Reported(w) THEN "exists in DNS"
                                            ELSE "available"),
                              DeleteResponse(req[w]),
                              HttpError(500, "OperationalError")}
          /\ (req'[w].kind = "create" /\ resp'[w].status = 200) =>
                \E t \in tunnels :
                    /\ t.id = TunnelIdOf(req'[w].n)
                    /\ resp'[w].tunnelToken = GetTunnelToken(t.id, t.tunnel_secret)]_vars

\* C38 witness: a list has returned the item of a row that holds a tunnel
\* secret, and the item has no field for it.
C38_Witness ==
    \E w \in Workers, i \in DOMAIN ledger :
        /\ req[w].kind = "list" /\ req[w].pc = "done"
        /\ resp[w].status = 200
        /\ Len(resp[w].subdomains) >= 1
        /\ resp[w].subdomains[1].tunnelId = ledger[i].tunnel_id
        /\ ledger[i].tunnel_secret \in Secrets
        /\ DOMAIN resp[w].subdomains[1] \cap SecretFields = {}

====
